---- MODULE Spec2Model ----
(***************************************************************************)
(* Adventurer Wiki (scripts/party-wiki.js): the shared entry collection,   *)
(* the GM-relay write gateway (saveEntries / requestSave), the refresh     *)
(* broadcast with its updateSetting fallback, the entry editor and the     *)
(* role-redacted view projection, as a state machine over a few clients.   *)
(*                                                                         *)
(* The host (Foundry VTT) is the environment: the world setting is one     *)
(* cell `store` that game.settings.get reads and a completed               *)
(* game.settings.set overwrites; game.socket.emit puts a message in the    *)
(* inbox of every other connected client; a completed settings write       *)
(* raises an updateSetting notification on every connected client.         *)
(***************************************************************************)
EXTENDS Integers, Sequences, FiniteSets, TLC

VARIABLES
    store,          \* game.settings value of adventurer-wiki.wikiEntries
    active,         \* users u with u.active (connected clients)
    inbox,          \* socket messages in flight to each client, in arrival order
    hooks,          \* updateSetting notifications pending on each client
    writing,        \* game.settings.set calls a client is awaiting, oldest first
    wiki,           \* each client's PartyWikiApp (open flag, fields, last context)
    editor,         \* each client's WikiEntryEditor (activeEditorApp)
    activeEditors,  \* each client's soft-lock map entryId -> session
    handle,         \* the collection object a caller holds after getEntries()
    nextId,         \* generateId(): number of ids handed out so far
    categories,     \* game.settings value of adventurer-wiki.wikiCategories
    catApp,         \* each client's WikiCategorySettings window
    windows,        \* each client's openWikiApps, activeEditorApp, the renders
                    \* refreshAllWikiApps started, and the window in front
    last            \* what the last step was and what it returned / emitted

catVars == <<categories, catApp>>

vars == <<store, active, inbox, hooks, writing, wiki, editor, activeEditors,
          handle, nextId, categories, catApp, windows, last>>

---------------------------------------------------------------------------
(* Bounds of the model *)

MaxEntries == 2     \* entries the store may hold
MaxCats    == 2     \* categories in a working set
MaxInbox   == 2     \* socket messages in flight to one client
MaxWrites  == 1     \* settings writes one client may be awaiting
MaxEditors == 2     \* editors one client opens in FocusSpec
MaxRenders == 2     \* refreshes whose renders one client has under way
MaxFlight  == 4     \* messages owed to one client in CrowdSpec
MaxRelays  == 2     \* relayed writes a GM may be awaiting in SerialSpec
MaxIds     == 2     \* ids generateId may hand out
MaxComments == 1    \* comments on one entry

---------------------------------------------------------------------------
(* Users and roles: game.users, game.user.isGM *)

GMs     == {"g1", "g2"}
Players == {"p1", "p2"}
Users   == GMs \cup Players

isGM(u) == u \in GMs

None == "none"      \* null / undefined, for text values
NoId == 0           \* null, for an entry id
NoApp == 0          \* null, for an editor window (the n-th opened is n)
Undefined == "undefined"    \* a field the object does not have

---------------------------------------------------------------------------
(* Text: strings are sequences of characters *)

LowerChar(ch) ==
    CASE ch = "D" -> "d"
      [] ch = "I" -> "i"
      [] ch = "L" -> "l"
      [] ch = "N" -> "n"
      [] ch = "P" -> "p"
      [] ch = "C" -> "c"
      [] OTHER    -> ch

toLowerCase(s) == [i \in 1..Len(s) |-> LowerChar(s[i])]

\* String.prototype.includes
includes(s, q) ==
    \E i \in 0..(Len(s) - Len(q)) : SubSeq(s, i + 1, i + Len(q)) = q

\* index of the first ">" at or after position i, 0 if there is none
RECURSIVE FirstClose(_, _)
FirstClose(s, i) ==
    IF i > Len(s) THEN 0
    ELSE IF s[i] = ">" THEN i
    ELSE FirstClose(s, i + 1)

\* content.replace(/<[^>]*>/g, " ") from position i on
RECURSIVE StripFrom(_, _)
StripFrom(s, i) ==
    IF i > Len(s) THEN <<>>
    ELSE IF s[i] = "<" /\ FirstClose(s, i + 1) # 0
         THEN <<" ">> \o StripFrom(s, FirstClose(s, i + 1) + 1)
         ELSE <<s[i]>> \o StripFrom(s, i + 1)

stripTags(s) == StripFrom(s, 1)

\* String.prototype.trim
RECURSIVE trimStart(_)
trimStart(s) == IF s # <<>> /\ Head(s) = " " THEN trimStart(Tail(s)) ELSE s

RECURSIVE trimEnd(_)
trimEnd(s) ==
    IF s # <<>> /\ s[Len(s)] = " " THEN trimEnd(SubSeq(s, 1, Len(s) - 1)) ELSE s

trim(s) == trimEnd(trimStart(s))

\* s.replace(/from+/g, to): every maximal run of `from` becomes one `to`
RECURSIVE SqueezeFrom(_, _, _, _)
SqueezeFrom(s, i, from, to) ==
    IF i > Len(s) THEN <<>>
    ELSE IF s[i] # from THEN <<s[i]>> \o SqueezeFrom(s, i + 1, from, to)
    ELSE IF i > 1 /\ s[i - 1] = from THEN SqueezeFrom(s, i + 1, from, to)
    ELSE <<to>> \o SqueezeFrom(s, i + 1, from, to)

\* the characters /[^a-z0-9-]/ keeps
SlugChars ==
    {"a", "b", "c", "d", "e", "f", "g", "h", "i", "j", "k", "l", "m", "n", "o",
     "p", "q", "r", "s", "t", "u", "v", "w", "x", "y", "z", "-",
     "0", "1", "2", "3", "4", "5", "6", "7", "8", "9"}

\* s.replace(/^-|-$/g, "")
trimDash(s) ==
    LET a == IF s # <<>> /\ Head(s) = "-" THEN Tail(s) ELSE s
    IN  IF a # <<>> /\ a[Len(a)] = "-" THEN SubSeq(a, 1, Len(a) - 1) ELSE a

\* the id the add-category handler derives from a label; now is Date.now()
slug(label, now) ==
    LET dashed == SqueezeFrom(toLowerCase(label), 1, " ", "-")
        kept   == SelectSeq(dashed, LAMBDA ch : ch \in SlugChars)
        id     == trimDash(SqueezeFrom(kept, 1, "-", "-"))
    IN  IF id # <<>> THEN id ELSE <<"c", "a", "t", "-">> \o now

---------------------------------------------------------------------------
(* Entries, comments, categories *)

\* category ids, like labels, are strings of characters
Lore == <<"l", "o", "r", "e">>
Npcs == <<"n", "p", "c", "s">>

\* the first and the third of the seven default categories, without icons
DEFAULT_CATEGORIES ==
    <<[id |-> Lore, label |-> <<"L", "o", "r", "e">>],
      [id |-> Npcs, label |-> <<"N", "P", "C", "s">>]>>

\* (Array.isArray(stored) && stored.length) ? stored : DEFAULT_CATEGORIES
getCategories == IF categories # <<>> THEN categories ELSE DEFAULT_CATEGORIES

Entry(id, title, category, content, hidden, gmNotes) ==
    [id |-> id, title |-> title, category |-> category, content |-> content,
     hidden |-> hidden, pendingDelete |-> FALSE, gmNotes |-> gmNotes,
     comments |-> <<>>]

Comment(id, userId, text) == [id |-> id, userId |-> userId, text |-> text]

\* entries.findIndex(e => e.id === id): 0 when absent (-1 in the source)
findIndex(entries, id) ==
    IF \E i \in 1..Len(entries) : entries[i].id = id
    THEN CHOOSE i \in 1..Len(entries) :
            /\ entries[i].id = id
            /\ \A j \in 1..(i - 1) : entries[j].id # id
    ELSE 0

\* entries.find(e => e.id === id): <<e>> when found, <<>> for undefined
findEntry(entries, id) ==
    IF findIndex(entries, id) = 0 THEN <<>> ELSE <<entries[findIndex(entries, id)]>>

Ids(entries) == {entries[i].id : i \in 1..Len(entries)}

\* how many entries carry this title and category
CountOf(entries, title, category) ==
    Cardinality({i \in 1..Len(entries) :
                    entries[i].title = title /\ entries[i].category = category})

---------------------------------------------------------------------------
(* The settings object and the copies callers hold.                        *)
(* A collection a caller holds is [depth, val]: depth is how many levels   *)
(* of objects are the caller's own (0: the settings array itself, 1: a new *)
(* array of the same entry objects, 2: new entry objects sharing their     *)
(* comments arrays, 3: nothing shared). An in-place change at level k      *)
(* (1: the array, 2: a field of an entry, 3: a comments array) also        *)
(* changes the settings object when depth < k.                             *)

deepClone(x) == [depth |-> 3, val |-> x]

getEntries_Shared == [depth |-> 0, val |-> store]

getEntries_Shallow == [depth |-> 1, val |-> store]

getEntries == deepClone(store)

\* entries.push(e)
PushEntry(entries, e) == Append(entries, e)

\* entries[idx] = e
SetEntry(entries, idx, e) == [entries EXCEPT ![idx] = e]

\* entries[idx].comments.push(c)
PushComment(entries, idx, c) ==
    [entries EXCEPT ![idx].comments = Append(@, c)]

\* entries[idx].title = t
SetTitle(entries, idx, t) == [entries EXCEPT ![idx].title = t]

\* the settings object after a caller holding h changed its copy in place
\* at `level`, `changed` being that same change applied to the settings object
Leak(h, level, changed) == IF h.depth < level THEN changed ELSE store

---------------------------------------------------------------------------
(* Cross-references: processEntryLinks.                                    *)
(* The HTML it returns is a sequence of nodes: the characters it leaves    *)
(* alone, and the anchor it puts in place of each [[Title]].               *)

TextNode(ch) == [tag |-> "text", id |-> NoId, text |-> <<ch>>]

\* index of the first "]" at or after position i, 0 if there is none
RECURSIVE FirstBracket(_, _)
FirstBracket(s, i) ==
    IF i > Len(s) THEN 0
    ELSE IF s[i] = "]" THEN i
    ELSE FirstBracket(s, i + 1)

\* the replacement callback: allEntries.find by lower-cased title
EntryLink_Exact(rawTitle, allEntries) ==
    LET title == trim(rawTitle)
        hits  == {i \in 1..Len(allEntries) : allEntries[i].title = title}
        first == CHOOSE i \in hits : \A j \in hits : i <= j
    IN  IF hits # {}
        THEN [tag |-> "link", id |-> allEntries[first].id, text |-> title]
        ELSE [tag |-> "missing", id |-> NoId, text |-> title]

EntryLink(rawTitle, allEntries) ==
    LET title == trim(rawTitle)
        hits  == {i \in 1..Len(allEntries) :
                    toLowerCase(allEntries[i].title) = toLowerCase(title)}
        first == CHOOSE i \in hits : \A j \in hits : i <= j
    IN  IF hits # {}
        THEN [tag |-> "link", id |-> allEntries[first].id, text |-> title]
        ELSE [tag |-> "missing", id |-> NoId, text |-> title]

\* html.replace(/\[\[([^\]]+)\]\]/g, ...) from position i on
RECURSIVE LinksFrom(_, _, _)
LinksFrom(s, i, allEntries) ==
    IF i > Len(s) THEN <<>>
    ELSE LET j == FirstBracket(s, i + 2)
         IN  IF /\ i + 1 <= Len(s) /\ s[i] = "[" /\ s[i + 1] = "["
                /\ j > i + 2 /\ j + 1 <= Len(s) /\ s[j + 1] = "]"
             THEN <<EntryLink(SubSeq(s, i + 2, j - 1), allEntries)>>
                      \o LinksFrom(s, j + 2, allEntries)
             ELSE <<TextNode(s[i])>> \o LinksFrom(s, i + 1, allEntries)

\* html is <<>> for null
processEntryLinks(html, allEntries) ==
    IF html = <<>> THEN <<>> ELSE LinksFrom(html, 1, allEntries)

\* the anchors with a data-id among the nodes
LinkIds(nodes) == {nodes[k].id : k \in {n \in 1..Len(nodes) : nodes[n].tag = "link"}}

---------------------------------------------------------------------------
(* View projection: PartyWikiApp._filterEntries and _prepareContext *)

_filterEntries_ShowHidden(entries, gm, searchQuery, activeCat) ==
    LET q == toLowerCase(searchQuery)
        Keep(e) ==
            IF q # <<>>
            THEN \/ includes(toLowerCase(e.title), q)
                 \/ includes(toLowerCase(stripTags(e.content)), q)
            ELSE e.category = activeCat
    IN  SelectSeq(entries, Keep)

_filterEntries_SearchFirst(entries, gm, searchQuery, activeCat) ==
    LET q == toLowerCase(searchQuery)
        Keep(e) ==
            IF q # <<>>
            THEN \/ includes(toLowerCase(e.title), q)
                 \/ includes(toLowerCase(stripTags(e.content)), q)
            ELSE IF e.hidden /\ ~gm THEN FALSE
            ELSE e.category = activeCat
    IN  SelectSeq(entries, Keep)

_filterEntries(entries, gm, searchQuery, activeCat) ==
    LET q == toLowerCase(searchQuery)
        Keep(e) ==
            IF e.hidden /\ ~gm THEN FALSE
            ELSE IF q # <<>>
            THEN \/ includes(toLowerCase(e.title), q)
                 \/ includes(toLowerCase(stripTags(e.content)), q)
            ELSE e.category = activeCat
    IN  SelectSeq(entries, Keep)

\* "Validate selected entry": this._selectedEntry after
\* if (!sel || (sel.hidden && !isGM)) this._selectedEntry = null
validSelection_Keep(entries, selected, gm) ==
    IF selected = NoId \/ findEntry(entries, selected) = <<>> THEN NoId
    ELSE selected

validSelection(entries, selected, gm) ==
    LET sel == findEntry(entries, selected)
    IN  IF selected = NoId THEN NoId
        ELSE IF sel = <<>> THEN NoId
        ELSE IF sel[1].hidden /\ ~gm THEN NoId
        ELSE selected

\* _formatComments: each comment with canDelete
_formatComments(comments, gm, c) ==
    [k \in 1..Len(comments) |->
        [id |-> comments[k].id, userId |-> comments[k].userId,
         text |-> comments[k].text,
         canDelete |-> gm \/ comments[k].userId = c]]

\* cats.map(cat => ({ ...cat, count: entries.filter(e => e.category === cat.id).length }))
categoriesWithCount(cats, entries) ==
    [i \in 1..Len(cats) |->
        [id |-> cats[i].id, label |-> cats[i].label,
         count |-> Cardinality({k \in 1..Len(entries) :
                                  entries[k].category = cats[i].id})]]

\* _prepareContext of client c's wiki window w over the collection just read:
\* the window's fields after it and the context handed to the template
\* (current is <<entry>>, or <<>> for null)
_prepareContext(c, w, entries) ==
    LET cats     == getCategories
        cat      == IF \E i \in 1..Len(cats) : cats[i].id = w.activeCat
                    THEN w.activeCat ELSE cats[1].id
        filtered == _filterEntries(entries, isGM(c), w.searchQuery, cat)
        selected == validSelection(entries, w.selected, isGM(c))
        current  == IF selected = NoId THEN <<>> ELSE findEntry(entries, selected)
        \* TextEditor.enrichHTML returns content that holds none of the host's
        \* own enrichers as it is; null (<<>>) when there is no content
        enrichedContent == IF current # <<>> THEN current[1].content ELSE <<>>
    IN  [activeCat |-> cat,
         selected  |-> selected,
         ctx |-> [categories |-> categoriesWithCount(cats, entries),
                  entries  |-> filtered,
                  current  |-> current,
                  enrichedContent |-> processEntryLinks(enrichedContent, entries),
                  formattedComments |->
                      _formatComments(IF current # <<>> THEN current[1].comments ELSE <<>>,
                                      isGM(c), c),
                  gmNotes  |-> IF isGM(c) /\ current # <<>>
                               THEN current[1].gmNotes ELSE None,
                  pendingDeletions |->
                      Cardinality({i \in 1..Len(entries) : entries[i].pendingDelete}),
                  noEntries |-> filtered = <<>>]]

\* app.render(): the window after _prepareContext ran over `entries`
Render(c, w, entries) ==
    LET p == _prepareContext(c, w, entries)
    IN  [w EXCEPT !.activeCat = p.activeCat, !.selected = p.selected,
                  !.ctx = <<p.ctx>>]

refreshAllWikiApps_Nothing(c, w, entries) == w

\* refreshAllWikiApps on client c: every window in openWikiApps re-renders
refreshAllWikiApps(c, w, entries) ==
    IF w.open THEN Render(c, w, entries) ELSE w

---------------------------------------------------------------------------
(* Socket messages and host events queued for a client *)

Msg(action, entries, entryId, userId) ==
    [action |-> action, entries |-> entries, entryId |-> entryId, userId |-> userId,
     connected |-> FALSE]

RequestSave(entries)  == Msg("requestSave", entries, NoId, None)
Refresh               == Msg("refresh", <<>>, NoId, None)
CategoriesChanged     == Msg("categoriesChanged", <<>>, NoId, None)
EditingStart(id, u)   == Msg("editingStart", <<>>, id, u)
EditingStop(id, u)    == Msg("editingStop", <<>>, id, u)
UserDisconnected(u)   == Msg("userConnected", <<>>, NoId, u)
UserJoined(u)         == [UserDisconnected(u) EXCEPT !.connected = TRUE]

\* game.socket.emit on client c: the host hands msgs to every other connected client
Emit(box, c, msgs) ==
    [u \in Users |-> IF u \in active /\ u # c THEN box[u] \o msgs ELSE box[u]]

\* messages in flight to u, and those the work in flight on the other clients
\* can still send it: a requestSave waiting at a GM becomes a write, a write
\* awaited ends in a refresh and, from an editor, an editingStop
CountReq(box) == Cardinality({i \in 1..Len(box) : box[i].action = "requestSave"})

InFlight(u) ==
    LET Work(v) == (IF isGM(v) THEN CountReq(inbox[v]) ELSE 0) + 2 * Len(writing[v])
        others  == Users \ {u}
        RECURSIVE Sum(_)
        Sum(S)  == IF S = {} THEN 0
                   ELSE LET v == CHOOSE x \in S : TRUE IN Work(v) + Sum(S \ {v})
    IN  Len(inbox[u]) + Sum(others)

\* the cap on what users may start: no client is ever owed more than MaxInbox
BoundedBy(cap) == \A u \in Users : InFlight(u) <= cap

Bounded == BoundedBy(MaxInbox)

\* game.users.find(u => u.isGM && u.active)
activeGM == \E u \in Users : isGM(u) /\ u \in active

---------------------------------------------------------------------------
(* Permission and write gateway: saveEntries.                              *)
(* The value is what the call does up to its first suspension: `write` is  *)
(* the game.settings.set the caller now awaits, `emits` the messages sent, *)
(* `result` the return value ("pending" while the write is awaited).       *)

saveEntries_NoBlock(c, entries) ==
    IF isGM(c)
    THEN [result |-> "pending", emits |-> <<>>, write |-> <<entries>>]
    ELSE [result |-> "true", emits |-> <<RequestSave(entries)>>, write |-> <<>>]

saveEntries_PlayerWrites(c, entries) ==
    IF isGM(c) \/ ~activeGM
    THEN [result |-> "pending", emits |-> <<>>, write |-> <<entries>>]
    ELSE [result |-> "true", emits |-> <<RequestSave(entries)>>, write |-> <<>>]

saveEntries(c, entries) ==
    IF isGM(c)
    THEN [result |-> "pending", emits |-> <<>>, write |-> <<entries>>]
    ELSE IF ~activeGM
    THEN [result |-> "false", emits |-> <<>>, write |-> <<>>]
    ELSE [result |-> "true", emits |-> <<RequestSave(entries)>>, write |-> <<>>]

\* what follows a completed game.settings.set in saveEntries and in the
\* requestSave handler: the messages emitted before refreshAllWikiApps()
afterWrite_NoRefresh == <<>>

afterWrite_Twice == <<Refresh, Refresh>>

afterWrite == <<Refresh>>

\* the requestSave case of the socket handler: the write a client receiving
\* the message starts (<<>> when it returns at once)
onRequestSave_NoGuard(c, payload) == <<payload.entries>>

onRequestSave_Empty(c, payload) == IF ~isGM(c) THEN <<>> ELSE <<<<>>>>

onRequestSave(c, payload) == IF ~isGM(c) THEN <<>> ELSE <<payload.entries>>

\* the editingStart case: activeEditors.set(entryId, {userName, userId})
onEditingStart(locks, payload) == [locks EXCEPT ![payload.entryId] = payload.userId]

\* the editingStop case: the lock map afterwards (the windows refresh when it changed)
onEditingStop_AnyUser(locks, payload) == [locks EXCEPT ![payload.entryId] = None]

onEditingStop(locks, payload) ==
    IF locks[payload.entryId] = payload.userId
    THEN [locks EXCEPT ![payload.entryId] = None]
    ELSE locks

\* the userConnected hook: on a disconnect every lock of that user goes
onUserConnected_ClearAll(locks, payload) ==
    IF ~payload.connected THEN [id \in DOMAIN locks |-> None] ELSE locks

onUserConnected_Keep(locks, payload) == locks

onUserConnected(locks, payload) ==
    IF ~payload.connected
    THEN [id \in DOMAIN locks |->
             IF locks[id] = payload.userId THEN None ELSE locks[id]]
    ELSE locks

\* the updateSetting hook: setting.id ?? setting._id ?? setting.key ?? ""
\* compared with `${MODULE_ID}.${SETTING_KEY}`
EntriesKey == "adventurer-wiki.wikiEntries"

settingIdOf(setting) ==
    IF setting.id # None THEN setting.id
    ELSE IF setting._id # None THEN setting._id
    ELSE IF setting.key # None THEN setting.key
    ELSE ""

onUpdateSetting_ByKey(setting) == setting.key = EntriesKey

onUpdateSetting(setting) == settingIdOf(setting) = EntriesKey

\* the setting objects the host may hand to the hook for the entries setting:
\* a plain {key}, or a stored document whose id is its database id
SettingObjects ==
    { [id |-> None, _id |-> None, key |-> EntriesKey],
      [id |-> "doc1", _id |-> "doc1", key |-> EntriesKey] }

---------------------------------------------------------------------------
(* Windows *)

Titles   == { <<"D">>, <<"i">> }

NoWiki ==
    [open |-> FALSE, activeCat |-> DEFAULT_CATEGORIES[1].id, selected |-> NoId,
     searchQuery |-> <<>>, input |-> "", ctx |-> <<>>]

NoEditor ==
    [open |-> FALSE, entry |-> <<>>, title |-> <<>>, category |-> <<>>,
     content |-> <<>>, gmNotes |-> "", hidden |-> FALSE,
     broadcastedStart |-> FALSE, blocked |-> FALSE]

NoLocks == [id \in 1..MaxIds |-> None]

\* no WikiCategorySettings window: _working is its working set, rows the
\* label inputs of the rows rendered, one per category of the working set
\* pending holds the value of a game.settings.set the window awaits
NoCatApp == [open |-> FALSE, working |-> <<>>, rows |-> <<>>, pending |-> <<>>]

\* const openWikiApps = new Set(); let activeEditorApp = null; no render
\* under way, no module window in front
NoWindows ==
    [openWikiApps |-> {}, activeEditorApp |-> NoApp, opened |-> 0,
     renders |-> <<>>, front |-> None]

\* game.settings.set(MODULE_ID, SETTING_KEY, entries): the value of the
\* setting becomes the array handed over
settingsSet_Merge(old, entries) ==
    SelectSeq(old, LAMBDA e : e.id \notin Ids(entries)) \o entries

settingsSet(old, entries) == entries

WriteOp(entries, origin) == [entries |-> entries, origin |-> origin]

\* retry: the step is a _handleSave from an editor whose last save was blocked;
\* took: the message the socket handler was called with, <<>> for other steps
Step(op, c, result, emitted) ==
    [op |-> op, client |-> c, result |-> result, emitted |-> emitted,
     retry |-> FALSE, took |-> <<>>]

\* a step that returns nothing and emits nothing
Quiet == Step("ui", None, None, <<>>)

InitWith(entries, ids) ==
    /\ store = entries
    /\ inbox = [u \in Users |-> <<>>]
    /\ hooks = [u \in Users |-> FALSE]
    /\ writing = [u \in Users |-> <<>>]
    /\ wiki = [u \in Users |-> NoWiki]
    /\ editor = [u \in Users |-> NoEditor]
    /\ activeEditors = [u \in Users |-> NoLocks]
    /\ handle = <<>>
    /\ nextId = ids
    /\ categories = DEFAULT_CATEGORIES
    /\ catApp = [u \in Users |-> NoCatApp]
    /\ windows = [u \in Users |-> NoWindows]
    /\ last = Step("init", None, None, <<>>)

\* a new world: the setting's default [], nobody connected yet
Init == InitWith(<<>>, 0) /\ active = {}

\* a world in which a player's entry was saved earlier
OneEntry == <<Entry(1, <<"D">>, Lore, <<>>, FALSE, Undefined)>>

EditInit == InitWith(OneEntry, 1) /\ active = {}

---------------------------------------------------------------------------
(* Connectivity *)

\* a client joins; the userConnected(user, true) the others are told changes
\* nothing on them (see onUserConnected) and is not queued
Connect(u) ==
    /\ u \notin active
    /\ UNCHANGED <<catVars, windows>>
    /\ active' = active \cup {u}
    /\ last' = Quiet
    /\ UNCHANGED <<store, inbox, hooks, writing, wiki, editor, activeEditors,
                   handle, nextId>>

\* the client goes away with its windows and pending calls; every other
\* connected client is told by userConnected(user, false)
Disconnect(u) ==
    /\ u \in active
    /\ active' = active \ {u}
    /\ inbox' = [v \in Users |->
                    IF v = u THEN <<>>
                    ELSE IF v \in active THEN Append(inbox[v], UserDisconnected(u))
                    ELSE inbox[v]]
    /\ hooks' = [hooks EXCEPT ![u] = FALSE]
    /\ writing' = [writing EXCEPT ![u] = <<>>]
    /\ wiki' = [wiki EXCEPT ![u] = NoWiki]
    /\ editor' = [editor EXCEPT ![u] = NoEditor]
    /\ activeEditors' = [activeEditors EXCEPT ![u] = NoLocks]
    /\ catApp' = [catApp EXCEPT ![u] = NoCatApp]
    /\ windows' = [windows EXCEPT ![u] = NoWindows]
    /\ UNCHANGED categories
    /\ last' = Quiet
    /\ UNCHANGED <<store, handle, nextId>>
    /\ Bounded'

---------------------------------------------------------------------------
(* PartyWikiApp: opening, closing, selecting *)

\* new PartyWikiApp().render(true)
OpenWiki(c) ==
    /\ c \in active
    /\ UNCHANGED <<catVars, windows>>
    /\ ~wiki[c].open
    /\ wiki' = [wiki EXCEPT ![c] = Render(c, [NoWiki EXCEPT !.open = TRUE], getEntries.val)]
    /\ last' = Quiet
    /\ UNCHANGED <<store, active, inbox, hooks, writing, editor, activeEditors,
                   handle, nextId>>

\* _onClickEntryItem on an entry of the rendered list
ClickEntryItem(c, id) ==
    /\ c \in active
    /\ UNCHANGED <<catVars, windows>>
    /\ wiki[c].open
    /\ wiki[c].ctx # <<>>
    /\ id \in Ids(wiki[c].ctx[1].entries)
    /\ wiki[c].selected # id
    /\ wiki' = [wiki EXCEPT ![c] = Render(c, [wiki[c] EXCEPT !.selected = id], getEntries.val)]
    /\ last' = Quiet
    /\ UNCHANGED <<store, active, inbox, hooks, writing, editor, activeEditors,
                   handle, nextId>>

\* _onClickCatTab
ClickCatTab(c, cat) ==
    /\ c \in active
    /\ UNCHANGED <<catVars, windows>>
    /\ wiki[c].open
    /\ wiki[c].activeCat # cat
    /\ wiki' = [wiki EXCEPT ![c] =
                  Render(c, [wiki[c] EXCEPT !.activeCat = cat, !.selected = NoId],
                         getEntries.val)]
    /\ last' = Quiet
    /\ UNCHANGED <<store, active, inbox, hooks, writing, editor, activeEditors,
                   handle, nextId>>

\* _onClickEntryLink on an anchor with a data-id of the rendered content
ClickEntryLink(c, id) ==
    /\ c \in active
    /\ UNCHANGED <<catVars, windows>>
    /\ wiki[c].open
    /\ wiki[c].ctx # <<>>
    /\ id \in LinkIds(wiki[c].ctx[1].enrichedContent)
    /\ wiki' = [wiki EXCEPT ![c] = Render(c, [wiki[c] EXCEPT !.selected = id], getEntries.val)]
    /\ last' = Step("ClickEntryLink", c, None, <<>>)
    /\ UNCHANGED <<store, active, inbox, hooks, writing, editor, activeEditors,
                   handle, nextId>>

\* typing into .wiki-comment-input
TypeComment(c, text) ==
    /\ c \in active
    /\ UNCHANGED <<catVars, windows>>
    /\ wiki[c].open
    /\ wiki[c].selected # NoId
    /\ wiki[c].input # text
    /\ wiki' = [wiki EXCEPT ![c].input = text]
    /\ last' = Quiet
    /\ UNCHANGED <<store, active, inbox, hooks, writing, editor, activeEditors,
                   handle, nextId>>

---------------------------------------------------------------------------
(* A caller's save: the part of a handler from its saveEntries call to its  *)
(* first suspension. `mem` is the settings object after the caller's       *)
(* in-place changes to what getEntries gave it.                            *)

CanSave(c) == isGM(c) => Len(writing[c]) < MaxWrites

StartSave(c, entries, mem, origin) ==
    LET r == saveEntries(c, entries)
    IN  /\ store' = mem
        /\ writing' = IF r.write = <<>> THEN writing
                      ELSE [writing EXCEPT ![c] = Append(@, WriteOp(r.write[1], origin))]
        /\ UNCHANGED hooks

---------------------------------------------------------------------------
(* generateId: `entry_${Date.now()}_${random}`, an id not handed out before *)

\* the id handed out last, once one has been
generateId_Stale == IF nextId > 0 THEN nextId ELSE nextId + 1

generateId == nextId + 1

---------------------------------------------------------------------------
(* PartyWikiApp._submitComment *)

\* if (saved !== false && commentInput) commentInput.value = ""
clearsInput_Always(result) == TRUE

clearsInput(result) == result # "false"

SubmitComment(c) ==
    LET w        == wiki[c]
        h        == getEntries
        entryIdx == findIndex(h.val, w.selected)
        comment  == Comment(generateId, c, w.input)
        entries  == PushComment(h.val, entryIdx, comment)
        mem      == Leak(h, 3, PushComment(store, entryIdx, comment))
        r        == saveEntries(c, entries)
    IN  /\ c \in active
        /\ UNCHANGED <<catVars, windows>>
        /\ w.open
        /\ w.selected # NoId
        /\ w.input # ""
        /\ entryIdx # 0
        /\ Len(h.val[entryIdx].comments) < MaxComments
        /\ nextId < MaxIds
        /\ CanSave(c)
        /\ nextId' = nextId + 1
        /\ StartSave(c, entries, mem, "comment")
        /\ inbox' = Emit(inbox, c, r.emits)
        /\ wiki' = IF r.result # "pending" /\ clearsInput(r.result)
                   THEN [wiki EXCEPT ![c].input = ""] ELSE wiki
        /\ last' = Step("SubmitComment", c, r.result, r.emits)
        /\ UNCHANGED <<active, editor, activeEditors, handle>>
        /\ Bounded'

---------------------------------------------------------------------------
(* WikiEntryEditor *)

\* _onClickNew: new WikiEntryEditor({ category: this._activeCat }, this).render(true)
ClickNew(c) ==
    /\ c \in active
    /\ UNCHANGED <<catVars, windows>>
    /\ wiki[c].open
    /\ ~editor[c].open
    /\ writing[c] = <<>>
    /\ editor' = [editor EXCEPT ![c] =
                    [NoEditor EXCEPT !.open = TRUE, !.category = wiki[c].activeCat]]
    /\ last' = Quiet
    /\ UNCHANGED <<store, active, inbox, hooks, writing, wiki, activeEditors,
                   handle, nextId>>

\* _onClickEdit, then the editor's first _onRender: the soft lock is set
\* locally and editingStart is broadcast
\* WikiEntryEditor._onRender: the lock and the editingStart broadcast
shouldBroadcastStart_Always(ed) == ed.entry # <<>>

shouldBroadcastStart(ed) == ~ed.broadcastedStart /\ ed.entry # <<>>

editor_onRender(c, ed, locks, w, entries) ==
    IF shouldBroadcastStart(ed)
    THEN [ed    |-> [ed EXCEPT !.broadcastedStart = TRUE],
          emits |-> <<EditingStart(ed.entry[1].id, c)>>,
          locks |-> [locks EXCEPT ![ed.entry[1].id] = c],
          wiki  |-> refreshAllWikiApps(c, w, entries)]
    ELSE [ed |-> ed, emits |-> <<>>, locks |-> locks, wiki |-> w]

\* the host renders the open editor again
RerenderEditor(c) ==
    LET r == editor_onRender(c, editor[c], activeEditors[c], wiki[c], store)
    IN  /\ c \in active
        /\ UNCHANGED <<catVars, windows>>
        /\ editor[c].open
        /\ editor' = [editor EXCEPT ![c] = r.ed]
        /\ activeEditors' = [activeEditors EXCEPT ![c] = r.locks]
        /\ inbox' = Emit(inbox, c, r.emits)
        /\ wiki' = [wiki EXCEPT ![c] = r.wiki]
        /\ last' = Step("RerenderEditor", c, None, r.emits)
        /\ UNCHANGED <<store, active, hooks, writing, handle, nextId>>
        /\ Bounded'

ClickEdit(c) ==
    LET found == findEntry(getEntries.val, wiki[c].selected)
        e     == found[1]
        fresh == [open |-> TRUE, entry |-> <<e>>, title |-> e.title,
                  category |-> e.category, content |-> e.content,
                  gmNotes |-> IF isGM(c) /\ e.gmNotes # Undefined
                              THEN e.gmNotes ELSE "",
                  hidden |-> IF isGM(c) THEN e.hidden ELSE FALSE,
                  broadcastedStart |-> FALSE, blocked |-> FALSE]
        r     == editor_onRender(c, fresh, activeEditors[c], wiki[c], store)
    IN  /\ c \in active
        /\ UNCHANGED <<catVars, windows>>
        /\ wiki[c].open
        /\ ~editor[c].open
        /\ writing[c] = <<>>
        /\ wiki[c].selected # NoId
        /\ found # <<>>
        /\ editor' = [editor EXCEPT ![c] = r.ed]
        /\ activeEditors' = [activeEditors EXCEPT ![c] = r.locks]
        /\ inbox' = Emit(inbox, c, r.emits)
        /\ wiki' = [wiki EXCEPT ![c] = r.wiki]
        /\ last' = Step("ClickEdit", c, None, r.emits)
        /\ UNCHANGED <<store, active, hooks, writing, handle, nextId>>
        /\ Bounded'

GmNotes == {"", "s"}

\* the user fills in the form (the GM-only inputs exist for a GM alone)
EditForm(c, title, category, gmNotes, hidden) ==
    /\ c \in active
    /\ UNCHANGED <<catVars, windows>>
    /\ editor[c].open
    /\ ~isGM(c) => gmNotes = "" /\ hidden = FALSE
    /\ editor' = [editor EXCEPT ![c].title = title, ![c].category = category,
                                ![c].gmNotes = gmNotes, ![c].hidden = hidden]
    /\ editor'[c] # editor[c]
    /\ last' = Quiet
    /\ UNCHANGED <<store, active, inbox, hooks, writing, wiki, activeEditors,
                   handle, nextId>>

\* WikiEntryEditor.close with _broadcastEditingStop, on editor ed of client c:
\* the messages emitted, and c's lock map and wiki window afterwards
closeEditor_KeepLock(c, ed, locks, w, entries) ==
    [emits |-> <<>>, locks |-> locks, wiki |-> w]

closeEditor(c, ed, locks, w, entries) ==
    IF ed.broadcastedStart /\ ed.entry # <<>>
    THEN [emits |-> <<EditingStop(ed.entry[1].id, c)>>,
          locks |-> [locks EXCEPT ![ed.entry[1].id] = None],
          wiki  |-> refreshAllWikiApps(c, w, entries)]
    ELSE [emits |-> <<>>, locks |-> locks, wiki |-> w]

\* the user closes the editor window without saving
CloseEditor(c) ==
    LET cl == closeEditor(c, editor[c], activeEditors[c], wiki[c], store)
    IN  /\ c \in active
        /\ UNCHANGED <<catVars, windows>>
        /\ editor[c].open
        /\ editor' = [editor EXCEPT ![c] = NoEditor]
        /\ activeEditors' = [activeEditors EXCEPT ![c] = cl.locks]
        /\ wiki' = [wiki EXCEPT ![c] = cl.wiki]
        /\ inbox' = Emit(inbox, c, cl.emits)
        /\ last' = Step("CloseEditor", c, None, cl.emits)
        /\ UNCHANGED <<store, active, hooks, writing, handle, nextId>>
        /\ Bounded'

\* what _handleSave does once saveEntries returned `result` other than false:
\* this._wikiApp.render(); this.close()
afterSave_Always(c, result) == TRUE

afterSave(c, result) == result # "false"

\* WikiEntryEditor._handleSave up to its first suspension, with no client
\* owed more than cap messages afterwards
\* Date.now() at a save; stored entries carry earlier times
DateNow == 1

\* entries that carry createdAt, createdBy, updatedAt and updatedBy get the
\* last two set by an update; worlds without them leave all four out
Stamped(e, c) ==
    IF "updatedAt" \in DOMAIN e
    THEN [e EXCEPT !.updatedAt = DateNow, !.updatedBy = c]
    ELSE e

\* the update branch of _handleSave: { ...entries[idx], title, category,
\* content, updatedAt, updatedBy, pendingDelete: false, comments,
\* ...(game.user.isGM ? { gmNotes, hidden } : {}) }
updateExisting_AnyRole(e, c, title, ed) ==
    Stamped([e EXCEPT !.title = title, !.category = ed.category,
                      !.content = ed.content, !.pendingDelete = FALSE,
                      !.gmNotes = ed.gmNotes, !.hidden = ed.hidden], c)

updateExisting(e, c, title, ed) ==
    Stamped([e EXCEPT !.title = title, !.category = ed.category,
                      !.content = ed.content, !.pendingDelete = FALSE,
                      !.gmNotes = IF isGM(c) THEN ed.gmNotes ELSE @,
                      !.hidden = IF isGM(c) THEN ed.hidden ELSE @], c)

\* if (idx !== -1) { ... } without an else: the entry the editor was opened
\* on is no longer among the entries read, which stay as they are
updateMissing_Push(entries, e) == Append(entries, e)

updateMissing(entries, e) == entries

\* if (!title) on the trimmed title
titleMissing_Never(title) == FALSE

titleMissing(title) == title = <<>>

HandleSaveUpTo(c, cap) ==
    LET ed      == editor[c]
        title   == trim(ed.title)
        h       == getEntries
        isNew   == ed.entry = <<>>
        idx     == IF isNew THEN 0 ELSE findIndex(h.val, ed.entry[1].id)
        created == Entry(generateId, title, ed.category, ed.content,
                         IF isGM(c) THEN ed.hidden ELSE FALSE,
                         IF isGM(c) THEN ed.gmNotes ELSE Undefined)
        Updated(e) == updateExisting(e, c, title, ed)
        entries == IF isNew THEN PushEntry(h.val, created)
                   ELSE IF idx # 0 THEN SetEntry(h.val, idx, Updated(h.val[idx]))
                   ELSE updateMissing(h.val, ed.entry[1])
        mem     == IF isNew THEN Leak(h, 1, PushEntry(store, created))
                   ELSE IF idx # 0 THEN Leak(h, 1, SetEntry(store, idx, Updated(store[idx])))
                   ELSE store
        r       == saveEntries(c, entries)
        done    == r.result # "pending" /\ afterSave(c, r.result)
        w1      == IF done /\ wiki[c].open THEN Render(c, wiki[c], mem) ELSE wiki[c]
        cl      == closeEditor(c, ed, activeEditors[c], w1, mem)
    IN  /\ c \in active
        /\ UNCHANGED <<catVars, windows>>
        /\ ed.open
        /\ IF titleMissing(title)
           THEN /\ last' = Step("HandleSave", c, "invalid", <<>>)
                /\ UNCHANGED <<store, active, inbox, hooks, writing, wiki, editor,
                               activeEditors, handle, nextId>>
           ELSE /\ CanSave(c)
                /\ isNew => nextId < MaxIds /\ Len(h.val) < MaxEntries
                /\ nextId' = IF isNew THEN nextId + 1 ELSE nextId
                /\ StartSave(c, entries, mem, "editor")
                /\ IF done
                   THEN /\ editor' = [editor EXCEPT ![c] = NoEditor]
                        /\ activeEditors' = [activeEditors EXCEPT ![c] = cl.locks]
                        /\ wiki' = [wiki EXCEPT ![c] = cl.wiki]
                        /\ inbox' = Emit(inbox, c, r.emits \o cl.emits)
                        /\ last' = [Step("HandleSave", c, r.result, r.emits \o cl.emits)
                                       EXCEPT !.retry = ed.blocked]
                   ELSE /\ editor' = [editor EXCEPT ![c].blocked = (r.result = "false")]
                        /\ inbox' = Emit(inbox, c, r.emits)
                        /\ last' = [Step("HandleSave", c, r.result, r.emits)
                                       EXCEPT !.retry = ed.blocked]
                        /\ UNCHANGED <<activeEditors, wiki>>
                /\ UNCHANGED <<active, handle>>
                /\ BoundedBy(cap)'

HandleSave(c) == HandleSaveUpTo(c, MaxInbox)

---------------------------------------------------------------------------
(* PartyWikiApp._onClickToggleHidden *)

\* if (!this._selectedEntry || !game.user.isGM) return
toggleAllowed_AnyRole(c, selected) == selected # NoId

toggleAllowed(c, selected) == selected # NoId /\ isGM(c)

ToggleHidden(c) ==
    LET h       == getEntries
        idx     == findIndex(h.val, wiki[c].selected)
        flipped == [h.val[idx] EXCEPT !.hidden = ~@]
        entries == SetEntry(h.val, idx, flipped)
        mem     == Leak(h, 1, SetEntry(store, idx, flipped))
        r       == saveEntries(c, entries)
    IN  /\ c \in active
        /\ UNCHANGED <<catVars, windows>>
        /\ wiki[c].open
        /\ IF ~toggleAllowed(c, wiki[c].selected) \/ idx = 0
           THEN /\ last' = Step("ToggleHidden", c, "return", <<>>)
                /\ UNCHANGED <<store, active, inbox, hooks, writing, wiki, editor,
                               activeEditors, handle, nextId>>
           ELSE /\ CanSave(c)
                /\ StartSave(c, entries, mem, "toggle")
                /\ inbox' = Emit(inbox, c, r.emits)
                /\ last' = Step("ToggleHidden", c, r.result, r.emits)
                /\ UNCHANGED <<active, wiki, editor, activeEditors, handle, nextId>>
                /\ Bounded'

---------------------------------------------------------------------------
(* PartyWikiApp._onClickGmDelete, the user having confirmed the dialog *)

\* getEntries().filter(en => en.id !== this._selectedEntry)
without(entries, id) == SelectSeq(entries, LAMBDA en : en.id # id)

\* getEntries().map(en => en.id === this._selectedEntry
\*                          ? { ...en, pendingDelete: flag } : en)
markPending_All(entries, selected, flag) ==
    [i \in 1..Len(entries) |-> [entries[i] EXCEPT !.pendingDelete = flag]]

markPending(entries, selected, flag) ==
    [i \in 1..Len(entries) |->
        IF entries[i].id = selected
        THEN [entries[i] EXCEPT !.pendingDelete = flag]
        ELSE entries[i]]

\* _onClickRequestDelete; ok is the answer to the confirmation dialog
RequestDelete(c, ok) ==
    LET entries == markPending(getEntries.val, wiki[c].selected, TRUE)
        r       == saveEntries(c, entries)
    IN  /\ c \in active
        /\ UNCHANGED <<catVars, windows>>
        /\ wiki[c].open
        /\ IF wiki[c].selected = NoId \/ ~ok
           THEN /\ last' = Step("RequestDelete", c, "return", <<>>)
                /\ UNCHANGED <<store, active, inbox, hooks, writing, wiki, editor,
                               activeEditors, handle, nextId>>
           ELSE /\ CanSave(c)
                /\ StartSave(c, entries, store, "request")
                /\ inbox' = Emit(inbox, c, r.emits)
                /\ last' = Step("RequestDelete", c, r.result, r.emits)
                /\ UNCHANGED <<active, wiki, editor, activeEditors, handle, nextId>>
                /\ Bounded'

\* _onClickCancelDelete
CancelDelete(c) ==
    LET entries == markPending(getEntries.val, wiki[c].selected, FALSE)
        r       == saveEntries(c, entries)
    IN  /\ c \in active
        /\ UNCHANGED <<catVars, windows>>
        /\ wiki[c].open
        /\ IF wiki[c].selected = NoId
           THEN /\ last' = Step("CancelDelete", c, "return", <<>>)
                /\ UNCHANGED <<store, active, inbox, hooks, writing, wiki, editor,
                               activeEditors, handle, nextId>>
           ELSE /\ CanSave(c)
                /\ StartSave(c, entries, store, "cancel")
                /\ inbox' = Emit(inbox, c, r.emits)
                /\ last' = Step("CancelDelete", c, r.result, r.emits)
                /\ UNCHANGED <<active, wiki, editor, activeEditors, handle, nextId>>
                /\ Bounded'

GmDelete(c) ==
    LET entries == without(getEntries.val, wiki[c].selected)
        r       == saveEntries(c, entries)
    IN  /\ c \in active
        /\ UNCHANGED <<catVars, windows>>
        /\ wiki[c].open
        /\ wiki[c].selected # NoId
        /\ CanSave(c)
        /\ StartSave(c, entries, store, "delete")
        /\ wiki' = [wiki EXCEPT ![c].selected = NoId]
        /\ inbox' = Emit(inbox, c, r.emits)
        /\ last' = Step("GmDelete", c, r.result, r.emits)
        /\ UNCHANGED <<active, editor, activeEditors, handle, nextId>>
        /\ Bounded'

---------------------------------------------------------------------------
(* PartyWikiApp._deleteComment *)

\* (entries[entryIdx].comments ?? []).filter(c => c.id !== commentId)
withoutComment(entries, entryIdx, commentId) ==
    [entries EXCEPT ![entryIdx].comments =
        SelectSeq(@, LAMBDA cm : cm.id # commentId)]

\* commentId: the data-comment-id of a comment of the rendered entry
DeleteComment(c, commentId) ==
    LET h        == getEntries
        entryIdx == findIndex(h.val, wiki[c].selected)
        entries  == withoutComment(h.val, entryIdx, commentId)
        mem      == Leak(h, 2, withoutComment(store, entryIdx, commentId))
        r        == saveEntries(c, entries)
    IN  /\ c \in active
        /\ UNCHANGED <<catVars, windows>>
        /\ wiki[c].open
        /\ wiki[c].ctx # <<>>
        /\ \E k \in 1..Len(wiki[c].ctx[1].formattedComments) :
              wiki[c].ctx[1].formattedComments[k].id = commentId
        /\ wiki[c].selected # NoId
        /\ entryIdx # 0
        /\ CanSave(c)
        /\ StartSave(c, entries, mem, "uncomment")
        /\ inbox' = Emit(inbox, c, r.emits)
        /\ last' = Step("DeleteComment", c, r.result, r.emits)
        /\ UNCHANGED <<active, wiki, editor, activeEditors, handle, nextId>>
        /\ Bounded'

---------------------------------------------------------------------------
(* The socket handler: one queued message or host event is handled *)

\* the handler is async: it runs up to its first await when the message
\* arrives, whatever earlier calls of it still await (at most cap writes)
DeliverUpTo(c, cap) ==
    LET m     == Head(inbox[c])
        write == onRequestSave(c, m)
    IN  /\ c \in active
        /\ UNCHANGED <<catVars, windows>>
        /\ inbox[c] # <<>>
        /\ inbox' = [inbox EXCEPT ![c] = Tail(@)]
        /\ CASE m.action = "requestSave" ->
                  /\ write # <<>> => Len(writing[c]) < cap
                  /\ writing' = IF write = <<>> THEN writing
                                ELSE [writing EXCEPT ![c] = Append(@, WriteOp(write[1], "relay"))]
                  /\ UNCHANGED <<wiki, activeEditors>>
             [] m.action \in {"refresh", "categoriesChanged"} ->
                  /\ wiki' = [wiki EXCEPT ![c] = refreshAllWikiApps(c, wiki[c], store)]
                  /\ UNCHANGED <<writing, activeEditors>>
             [] m.action = "editingStart" ->
                  /\ activeEditors' = [activeEditors EXCEPT ![c] = onEditingStart(@, m)]
                  /\ wiki' = [wiki EXCEPT ![c] = refreshAllWikiApps(c, wiki[c], store)]
                  /\ UNCHANGED writing
             [] m.action = "editingStop" ->
                  /\ activeEditors' = [activeEditors EXCEPT ![c] = onEditingStop(@, m)]
                  /\ wiki' = IF activeEditors[c][m.entryId] = m.userId
                             THEN [wiki EXCEPT ![c] = refreshAllWikiApps(c, wiki[c], store)]
                             ELSE wiki
                  /\ UNCHANGED writing
             [] m.action = "userConnected" ->
                  /\ activeEditors' = [activeEditors EXCEPT ![c] = onUserConnected(@, m)]
                  /\ wiki' = IF ~m.connected
                             THEN [wiki EXCEPT ![c] = refreshAllWikiApps(c, wiki[c], store)]
                             ELSE wiki
                  /\ UNCHANGED writing
        /\ last' = [Step("Deliver", c, m.action, <<>>) EXCEPT !.took = <<m>>]
        /\ UNCHANGED <<store, active, hooks, editor, handle, nextId>>

Deliver(c) == DeliverUpTo(c, MaxWrites)

\* the game.settings.set a GM awaits completes: the store holds the written
\* collection, every connected client is owed an updateSetting, and the
\* awaiting code resumes (refresh broadcast, local refresh, then its caller)
WriteDone(c) ==
    LET op   == Head(writing[c])
        w1   == refreshAllWikiApps(c, wiki[c], op.entries)
        w2   == IF op.origin = "editor" /\ w1.open THEN Render(c, w1, op.entries) ELSE w1
        w3   == IF op.origin = "comment" /\ clearsInput("true")
                THEN [w2 EXCEPT !.input = ""] ELSE w2
        cl   == IF op.origin = "editor" /\ editor[c].open /\ afterSave(c, "true")
                THEN closeEditor(c, editor[c], activeEditors[c], w3, op.entries)
                ELSE [emits |-> <<>>, locks |-> activeEditors[c], wiki |-> w3]
        sent == afterWrite \o cl.emits
    IN  /\ c \in active
        /\ UNCHANGED <<catVars, windows>>
        /\ writing[c] # <<>>
        /\ writing' = [writing EXCEPT ![c] = Tail(@)]
        /\ store' = settingsSet(store, op.entries)
        /\ hooks' = [u \in Users |-> hooks[u] \/ u \in active]
        /\ inbox' = Emit(inbox, c, sent)
        /\ wiki' = [wiki EXCEPT ![c] = cl.wiki]
        /\ activeEditors' = [activeEditors EXCEPT ![c] = cl.locks]
        /\ editor' = IF op.origin = "editor" /\ afterSave(c, "true")
                     THEN [editor EXCEPT ![c] = NoEditor] ELSE editor
        /\ last' = Step("WriteDone", c, op.origin, sent)
        /\ UNCHANGED <<active, handle, nextId>>

\* what the code awaiting a game.settings.set does when it is rejected:
\* nothing catches, so saveEntries (or the requestSave handler) throws at its
\* await, and so does the caller awaiting saveEntries
writeRejected_Blocked(origin) == [result |-> "false", emits |-> <<Refresh>>]

writeRejected(origin) == [result |-> "throw", emits |-> <<>>]

\* the game.settings.set a GM awaits is rejected
WriteFail(c) ==
    LET op == Head(writing[c])
        r  == writeRejected(op.origin)
    IN  /\ c \in active
        /\ UNCHANGED <<catVars, windows>>
        /\ writing[c] # <<>>
        /\ writing' = [writing EXCEPT ![c] = Tail(@)]
        /\ inbox' = Emit(inbox, c, r.emits)
        /\ editor' = IF op.origin = "editor" /\ editor[c].open /\ r.result = "false"
                     THEN [editor EXCEPT ![c].blocked = TRUE] ELSE editor
        /\ last' = Step("WriteFail", c, r.result, r.emits)
        /\ UNCHANGED <<store, active, hooks, wiki, activeEditors, handle, nextId>>

\* Hooks.on("updateSetting") runs on client c for the entries setting
UpdateSetting(c, setting) ==
    /\ c \in active
    /\ UNCHANGED <<catVars, windows>>
    /\ hooks[c]
    /\ hooks' = [hooks EXCEPT ![c] = FALSE]
    /\ wiki' = IF onUpdateSetting(setting)
               THEN [wiki EXCEPT ![c] = refreshAllWikiApps(c, wiki[c], store)]
               ELSE wiki
    /\ last' = Quiet
    /\ UNCHANGED <<store, active, inbox, writing, editor, activeEditors,
                   handle, nextId>>

\* the socket or the host calls client c's handler with a message the other
\* clients' editors, or their leaving and joining, give rise to
Arrive(c, m) ==
    /\ c \in active
    /\ UNCHANGED <<catVars, windows>>
    /\ Len(inbox[c]) < MaxInbox
    /\ inbox' = [inbox EXCEPT ![c] = Append(@, m)]
    /\ last' = Quiet
    /\ UNCHANGED <<store, active, hooks, writing, wiki, editor, activeEditors,
                   handle, nextId>>

\* the host loses a refresh message on its way to client c
DropRefresh(c) ==
    /\ c \in active
    /\ UNCHANGED <<catVars, windows>>
    /\ inbox[c] # <<>>
    /\ Head(inbox[c]).action = "refresh"
    /\ inbox' = [inbox EXCEPT ![c] = Tail(@)]
    /\ last' = Quiet
    /\ UNCHANGED <<store, active, hooks, writing, wiki, editor, activeEditors,
                   handle, nextId>>

---------------------------------------------------------------------------
(* WikiCategorySettings: the window that edits a working copy of the       *)
(* category set and saves it                                               *)

Category(id, label) == [id |-> id, label |-> label]

\* the rows the template renders, one label input per category
catRows(working) ==
    [i \in 1..Len(working) |-> [id |-> working[i].id, value |-> working[i].label]]

\* _working with the label inputs read back: an input that trims to nothing
\* leaves its category's label as it was
_syncFromDOM(working, rows) ==
    [i \in 1..Len(working) |->
        LET js == {j \in 1..Len(rows) : rows[j].id = working[i].id
                                         /\ trim(rows[j].value) # <<>>}
        IN  IF js = {} THEN working[i]
            ELSE LET j == CHOOSE k \in js : \A l \in js : l <= k
                 IN  [working[i] EXCEPT !.label = trim(rows[j].value)]]

\* _working.findIndex(c => c.id === catId), 0 when absent
catIndex(working, catId) ==
    IF \E i \in 1..Len(working) : working[i].id = catId
    THEN CHOOSE i \in 1..Len(working) :
             /\ working[i].id = catId
             /\ \A j \in 1..(i - 1) : working[j].id # catId
    ELSE 0

swap(working, i, j) == [working EXCEPT ![i] = working[j], ![j] = working[i]]

workingValid_Any(working) == TRUE

\* the two checks of _save: at least one category, every label non-blank
workingValid(working) ==
    /\ Len(working) # 0
    /\ \A i \in 1..Len(working) : trim(working[i].label) # <<>>

\* the window shows working after this.render({force: true})
shown(app, working) == [app EXCEPT !.working = working, !.rows = catRows(working)]

\* click on .wiki-btn-settings: new WikiCategorySettings().render(true)
OpenCatSettings(c) ==
    /\ c \in active
    /\ wiki[c].open
    /\ ~catApp[c].open
    /\ catApp' = [catApp EXCEPT ![c] =
                    [open |-> TRUE, working |-> getCategories,
                     rows |-> catRows(getCategories), pending |-> <<>>]]
    /\ last' = Quiet
    /\ UNCHANGED <<store, active, inbox, hooks, writing, wiki, editor,
                   activeEditors, handle, nextId, categories, windows>>

\* the user types into the label input of row i
TypeCatLabel(c, i, value) ==
    /\ c \in active
    /\ catApp[c].open
    /\ catApp[c].pending = <<>>
    /\ i \in 1..Len(catApp[c].rows)
    /\ catApp' = [catApp EXCEPT ![c].rows[i].value = value]
    /\ last' = Quiet
    /\ UNCHANGED <<store, active, inbox, hooks, writing, wiki, editor,
                   activeEditors, handle, nextId, categories, windows>>

\* click on a row's delete button; ok is the answer to the confirm dialog
DeleteCategory(c, catId, ok) ==
    LET synced == _syncFromDOM(catApp[c].working, catApp[c].rows)
        kept   == SelectSeq(synced, LAMBDA cat : cat.id # catId)
    IN  /\ c \in active
        /\ catApp[c].open
        /\ catApp[c].pending = <<>>
        /\ \E i \in 1..Len(catApp[c].rows) : catApp[c].rows[i].id = catId
        /\ catApp' = IF ok THEN [catApp EXCEPT ![c] = shown(@, kept)] ELSE catApp
        /\ last' = Step("DeleteCategory", c, IF ok THEN "true" ELSE "return", <<>>)
        /\ UNCHANGED <<store, active, inbox, hooks, writing, wiki, editor,
                       activeEditors, handle, nextId, categories, windows>>

\* click on a row's move-up (up) or move-down button
MoveCategory(c, catId, up) ==
    LET synced == _syncFromDOM(catApp[c].working, catApp[c].rows)
        idx    == catIndex(synced, catId)
        moves  == IF up THEN idx > 1 ELSE idx < Len(synced)
        moved  == IF up THEN swap(synced, idx - 1, idx) ELSE swap(synced, idx, idx + 1)
    IN  /\ c \in active
        /\ catApp[c].open
        /\ catApp[c].pending = <<>>
        /\ \E i \in 1..Len(catApp[c].rows) : catApp[c].rows[i].id = catId
        /\ catApp' = IF moves THEN [catApp EXCEPT ![c] = shown(@, moved)]
                      ELSE [catApp EXCEPT ![c].working = synced]
        /\ last' = Quiet
        /\ UNCHANGED <<store, active, inbox, hooks, writing, wiki, editor,
                       activeEditors, handle, nextId, categories, windows>>

\* click on the add button with typed in the new-label input at time now
AddCategory(c, typed, now) ==
    LET label  == trim(typed)
        id     == slug(label, now)
        synced == _syncFromDOM(catApp[c].working, catApp[c].rows)
        result == IF label = <<>> THEN "warn"
                  ELSE IF catIndex(catApp[c].working, id) # 0 THEN "exists"
                  ELSE "true"
    IN  /\ c \in active
        /\ catApp[c].open
        /\ catApp[c].pending = <<>>
        /\ result = "true" => Len(catApp[c].working) < MaxCats
        /\ catApp' = IF result = "true"
                      THEN [catApp EXCEPT ![c] = shown(@, Append(synced, Category(id, label)))]
                      ELSE catApp
        /\ last' = Step("AddCategory", c, result, <<>>)
        /\ UNCHANGED <<store, active, inbox, hooks, writing, wiki, editor,
                       activeEditors, handle, nextId, categories, windows>>

\* click on the save button: _save up to the game.settings.set it awaits.
\* The value to write is serialised in the call, and the window is left
\* alone for the instant the write takes.
SaveCategories(c) ==
    LET synced == _syncFromDOM(catApp[c].working, catApp[c].rows)
        ok     == workingValid(synced)
    IN  /\ c \in active
        /\ catApp[c].open
        /\ catApp[c].pending = <<>>
        /\ catApp' = [catApp EXCEPT ![c].working = synced,
                                    ![c].pending = IF ok THEN <<synced>> ELSE <<>>]
        /\ last' = Step("SaveCategories", c, IF ok THEN "pending" ELSE "warn", <<>>)
        /\ UNCHANGED <<store, active, inbox, hooks, writing, wiki, editor,
                       activeEditors, handle, nextId, categories, windows>>

\* the host stores the value a GM's window awaits the write of
CategoriesWritten(c) ==
    /\ c \in active
    /\ isGM(c)
    /\ catApp[c].pending # <<>>
    /\ categories # catApp[c].pending[1]
    /\ categories' = catApp[c].pending[1]
    /\ last' = Quiet
    /\ UNCHANGED <<store, active, inbox, hooks, writing, wiki, editor,
                   activeEditors, handle, nextId, catApp, windows>>

\* _save resumes after the write: broadcast, local refresh, close
CategoriesSaved(c) ==
    /\ c \in active
    /\ catApp[c].pending # <<>>
    /\ categories = catApp[c].pending[1]
    /\ inbox' = Emit(inbox, c, <<CategoriesChanged>>)
    /\ wiki' = [wiki EXCEPT ![c] = refreshAllWikiApps(c, wiki[c], store)]
    /\ catApp' = [catApp EXCEPT ![c] = NoCatApp]
    /\ last' = Step("SaveCategories", c, "true", <<CategoriesChanged>>)
    /\ UNCHANGED <<store, active, hooks, writing, editor, activeEditors,
                   handle, nextId, categories, windows>>
    /\ Bounded'

\* the host refuses the write (the user may not change world settings, or
\* the connection fails): _save throws at its await
CategoriesRefused(c) ==
    /\ c \in active
    /\ catApp[c].pending # <<>>
    /\ categories # catApp[c].pending[1]
    /\ catApp' = [catApp EXCEPT ![c].pending = <<>>]
    /\ last' = Step("SaveCategories", c, "throw", <<>>)
    /\ UNCHANGED <<store, active, inbox, hooks, writing, wiki, editor,
                   activeEditors, handle, nextId, categories, windows>>

\* click on the cancel button: this.close()
CancelCatSettings(c) ==
    /\ c \in active
    /\ catApp[c].open
    /\ catApp[c].pending = <<>>
    /\ catApp' = [catApp EXCEPT ![c] = NoCatApp]
    /\ last' = Quiet
    /\ UNCHANGED <<store, active, inbox, hooks, writing, wiki, editor,
                   activeEditors, handle, nextId, categories, windows>>

---------------------------------------------------------------------------
(* The window stack: refreshAllWikiApps starts a render of every open wiki  *)
(* window and, with an editor open, brings the editor to the front once     *)
(* they have all ended. The other sections take a render to be done when    *)
(* it is asked for; here a render takes time.                               *)

WikiApps == {"w1", "w2"}

\* the renders one refreshAllWikiApps call started and has not seen end, and
\* the editor it found and has yet to call bringToFront on (NoApp if none)
Refreshing(waits, ed) == [waits |-> waits, editor |-> ed]

\* Promise.all(renders).then(...): the callback runs when no render is left
allRendered_First(waits) == TRUE

allRendered(waits) == waits = {}

\* PartyWikiApp._onRender at the end of a window's first render
ShowWikiApp(c, w) ==
    /\ c \in active
    /\ w \notin windows[c].openWikiApps
    /\ windows' = [windows EXCEPT ![c].openWikiApps = @ \cup {w}, ![c].front = w]
    /\ last' = Quiet
    /\ UNCHANGED <<store, active, inbox, hooks, writing, wiki, editor,
                   activeEditors, handle, nextId, catVars>>

\* WikiEntryEditor._onRender at the end of the editor's first render
ShowEditor(c) ==
    /\ c \in active
    /\ windows[c].activeEditorApp = NoApp
    /\ windows[c].opened < MaxEditors
    /\ windows' = [windows EXCEPT ![c].activeEditorApp = windows[c].opened + 1,
                                  ![c].opened = @ + 1,
                                  ![c].front = "editor"]
    /\ last' = Quiet
    /\ UNCHANGED <<store, active, inbox, hooks, writing, wiki, editor,
                   activeEditors, handle, nextId, catVars>>

\* WikiEntryEditor.close: activeEditorApp = null; the window goes
HideEditor(c) ==
    /\ c \in active
    /\ windows[c].activeEditorApp # NoApp
    /\ windows' = [windows EXCEPT ![c].activeEditorApp = NoApp,
                                  ![c].front = IF @ = "editor" THEN None ELSE @]
    /\ last' = Quiet
    /\ UNCHANGED <<store, active, inbox, hooks, writing, wiki, editor,
                   activeEditors, handle, nextId, catVars>>

\* refreshAllWikiApps() is called on client c: every open wiki window starts
\* to render; with no window open Promise.all([]) is resolved already
RefreshAll(c) ==
    LET ws      == windows[c]
        raise   == ws.activeEditorApp # NoApp /\ allRendered(ws.openWikiApps)
        started == Refreshing(ws.openWikiApps,
                              IF raise THEN NoApp ELSE ws.activeEditorApp)
    IN  /\ c \in active
        /\ Len(ws.renders) < MaxRenders
        /\ windows' = [windows EXCEPT
                          ![c].renders = IF ws.openWikiApps = {} THEN @
                                         ELSE Append(@, started),
                          ![c].front = IF raise THEN "editor" ELSE @]
        /\ last' = Step("RefreshAll", c, IF raise THEN "bringToFront" ELSE None, <<>>)
        /\ UNCHANGED <<store, active, inbox, hooks, writing, wiki, editor,
                       activeEditors, handle, nextId, catVars>>

\* the k-th refresh under way sees window w's render end, the re-rendered
\* window coming to the front or not (raised); the refresh's callback, if
\* due, then calls bringToFront on the editor the refresh found, which does
\* nothing to an editor closed since
RenderDone(c, k, w, raised) ==
    LET ws    == windows[c]
        r     == ws.renders[k]
        rest  == r.waits \ {w}
        raise == r.editor # NoApp /\ allRendered(rest)
        next  == Refreshing(rest, IF raise THEN NoApp ELSE r.editor)
        kept  == IF rest = {}
                 THEN SubSeq(ws.renders, 1, k - 1) \o SubSeq(ws.renders, k + 1, Len(ws.renders))
                 ELSE [ws.renders EXCEPT ![k] = next]
    IN  /\ c \in active
        /\ k \in 1..Len(ws.renders)
        /\ w \in r.waits
        /\ windows' = [windows EXCEPT
                          ![c].renders = kept,
                          ![c].front = IF raise /\ ws.activeEditorApp = r.editor
                                       THEN "editor"
                                       ELSE IF raised THEN w ELSE @]
        /\ last' = Step("RenderDone", c, IF raise THEN "bringToFront" ELSE None, <<>>)
        /\ UNCHANGED <<store, active, inbox, hooks, writing, wiki, editor,
                       activeEditors, handle, nextId, catVars>>

---------------------------------------------------------------------------
(* A caller reads the collection and changes its copy in place, as the     *)
(* handlers do between getEntries() and saveEntries()                      *)

\* const entries = getEntries()
Read(c) ==
    /\ c \in active
    /\ UNCHANGED <<catVars, windows>>
    /\ handle' = <<getEntries>>
    /\ last' = Step("Read", c, None, <<>>)
    /\ UNCHANGED <<store, active, inbox, hooks, writing, wiki, editor,
                   activeEditors, nextId>>

\* entries.push(e)
MutatePush(c, e) ==
    /\ c \in active
    /\ UNCHANGED <<catVars, windows>>
    /\ handle # <<>>
    /\ Len(handle[1].val) < MaxEntries
    /\ handle' = <<[handle[1] EXCEPT !.val = PushEntry(@, e)]>>
    /\ store' = Leak(handle[1], 1, PushEntry(store, e))
    /\ last' = Step("MutatePush", c, None, <<>>)
    /\ UNCHANGED <<active, inbox, hooks, writing, wiki, editor, activeEditors, nextId>>

\* entries[idx].title = t
MutateField(c, idx, t) ==
    /\ c \in active
    /\ UNCHANGED <<catVars, windows>>
    /\ handle # <<>>
    /\ idx \in 1..Len(handle[1].val)
    /\ handle[1].val[idx].title # t
    /\ handle' = <<[handle[1] EXCEPT !.val = SetTitle(@, idx, t)]>>
    /\ store' = Leak(handle[1], 2,
                     IF idx <= Len(store) THEN SetTitle(store, idx, t) ELSE store)
    /\ last' = Step("MutateField", c, None, <<>>)
    /\ UNCHANGED <<active, inbox, hooks, writing, wiki, editor, activeEditors, nextId>>

\* entries[idx].comments.push(cm)
MutateComment(c, idx, cm) ==
    /\ c \in active
    /\ UNCHANGED <<catVars, windows>>
    /\ handle # <<>>
    /\ idx \in 1..Len(handle[1].val)
    /\ Len(handle[1].val[idx].comments) < MaxComments
    /\ handle' = <<[handle[1] EXCEPT !.val = PushComment(@, idx, cm)]>>
    /\ store' = Leak(handle[1], 3,
                     IF idx <= Len(store) THEN PushComment(store, idx, cm) ELSE store)
    /\ last' = Step("MutateComment", c, None, <<>>)
    /\ UNCHANGED <<active, inbox, hooks, writing, wiki, editor, activeEditors, nextId>>

\* the search box's input listener: this._searchQuery = value; render
SetSearch(c, q) ==
    /\ c \in active
    /\ UNCHANGED <<catVars, windows>>
    /\ wiki[c].open
    /\ wiki[c].searchQuery # q
    /\ wiki' = [wiki EXCEPT ![c] = Render(c, [wiki[c] EXCEPT !.searchQuery = q],
                                          getEntries.val)]
    /\ last' = Quiet
    /\ UNCHANGED <<store, active, inbox, hooks, writing, editor, activeEditors,
                   handle, nextId>>

---------------------------------------------------------------------------
(* The system *)

Cats == {DEFAULT_CATEGORIES[i].id : i \in 1..Len(DEFAULT_CATEGORIES)}

HostStep(c) ==
    \/ Deliver(c)
    \/ WriteDone(c)
    \/ WriteFail(c)
    \/ \E setting \in SettingObjects : UpdateSetting(c, setting)

\* a user creating entries through the editor
CreateStep(c) ==
    \/ OpenWiki(c)
    \/ ClickNew(c)
    \/ \E t \in Titles :
          EditForm(c, t, editor[c].category, editor[c].gmNotes, editor[c].hidden)
    \/ HandleSave(c)

\* Spec: one GM and one player create entries while either may come and go
Next ==
    \E c \in {"g1", "p1"} :
        Connect(c) \/ Disconnect(c) \/ CreateStep(c) \/ HostStep(c)

Spec == Init /\ [][Next]_vars

\* RelaySpec: a player's saves reach a GM and a second player
RelayNext ==
    \/ \E c \in {"g1", "p1", "p2"} : Connect(c) \/ HostStep(c)
    \/ Disconnect("g1")
    \/ CreateStep("p1")

RelaySpec == Init /\ [][RelayNext]_vars

\* EditSpec: the entry of OneEntry is selected, edited and commented on
EditStep(c) ==
    \/ \E id \in 1..MaxIds : ClickEntryItem(c, id)
    \/ ClickEdit(c)
    \/ \E t \in Titles :
          EditForm(c, t, editor[c].category, editor[c].gmNotes, editor[c].hidden)
    \/ CloseEditor(c)
    \/ HandleSave(c)
    \/ \E text \in {"", "hi"} : TypeComment(c, text)
    \/ SubmitComment(c)

EditNext ==
    \/ \E c \in {"g1", "p1"} : Connect(c) \/ OpenWiki(c) \/ HostStep(c)
    \/ Disconnect("g1")
    \/ EditStep("p1")

EditSpec == EditInit /\ [][EditNext]_vars

\* ReadSpec: a caller on a connected client reads and changes its copy, over
\* the worlds of ReadStores
TwoEntries ==
    <<Entry(1, <<"D">>, Lore, <<>>, FALSE, Undefined),
      [Entry(2, <<"i">>, Npcs, <<>>, TRUE, "s") EXCEPT
          !.comments = <<Comment(3, "p1", "hi")>>]>>

ReadStores == {<<>>, OneEntry, TwoEntries, <<TwoEntries[2]>>}

ReadInit ==
    /\ \E s \in ReadStores : InitWith(s, 3)
    /\ active = {"p1"}

NewEntries == {Entry(4, t, Lore, <<>>, FALSE, Undefined) : t \in Titles}

ReadNext ==
    \E c \in {"p1"} :
        \/ Read(c)
        \/ \E e \in NewEntries : MutatePush(c, e)
        \/ \E idx \in 1..MaxEntries, t \in Titles : MutateField(c, idx, t)
        \/ \E idx \in 1..MaxEntries : MutateComment(c, idx, Comment(5, c, "hi"))

ReadSpec == ReadInit /\ [][ReadNext]_vars

\* ViewSpec: a GM and a player look at the worlds of ViewStores through
\* searches and category tabs
ViewLen == 2

ViewContents == { <<>>, <<"<", "i", ">", "d">> }

ViewEntries(id) ==
    {Entry(id, t, cat, body, hid, IF hid THEN "s" ELSE Undefined) :
        t \in Titles, cat \in Cats, body \in ViewContents, hid \in BOOLEAN}

RECURSIVE StoresOfLen(_)
StoresOfLen(n) ==
    IF n = 0 THEN {<<>>}
    ELSE {Append(s, e) : s \in StoresOfLen(n - 1), e \in ViewEntries(n)}

ViewStores == UNION {StoresOfLen(n) : n \in 0..ViewLen}

ViewInit ==
    /\ \E s \in ViewStores : InitWith(s, Len(s))
    /\ active = {"g1", "p1"}

Queries == { <<>>, <<"d">>, <<"I">> }

ViewNext ==
    \E c \in {"g1", "p1"} :
        \/ OpenWiki(c)
        \/ \E q \in Queries : SetSearch(c, q)
        \/ \E cat \in Cats : ClickCatTab(c, cat)

ViewSpec == ViewInit /\ [][ViewNext]_vars

\* FairSpec: one GM and one player create entries titled "D"; every queued
\* message and notification is handled and every settings write ends
LiveStep(c) ==
    \/ Connect(c)
    \/ OpenWiki(c)
    \/ ClickNew(c)
    \/ EditForm(c, <<"D">>, editor[c].category, editor[c].gmNotes, editor[c].hidden)
    \/ HandleSave(c)
    \/ HostStep(c)

LiveNext == Disconnect("g1") \/ \E c \in {"g1", "p1"} : LiveStep(c)

Fairness ==
    \A c \in {"g1", "p1"} :
        /\ WF_vars(Deliver(c))
        /\ WF_vars(WriteDone(c) \/ WriteFail(c))
        /\ WF_vars(\E setting \in SettingObjects : UpdateSetting(c, setting))

FairSpec == Init /\ [][LiveNext]_vars /\ Fairness

\* LossySpec: as FairSpec, and the host may lose refresh messages
LossyNext == LiveNext \/ \E c \in {"g1", "p1"} : DropRefresh(c)

LossySpec == Init /\ [][LossyNext]_vars /\ Fairness

\* ProjSpec: a GM and a player open entries, by the list and by the links in
\* their content, over the worlds of ProjStores
ProjLen == 2

ProjContents == { <<>>, <<"[", "[", "d", " ", "]", "]">> }

ProjEntries(id) ==
    {Entry(id, t, Lore, body, hid, notes) :
        t \in Titles, body \in ProjContents, hid \in BOOLEAN,
        notes \in {Undefined, "s"}}

RECURSIVE ProjStoresOfLen(_)
ProjStoresOfLen(n) ==
    IF n = 0 THEN {<<>>}
    ELSE {Append(s, e) : s \in ProjStoresOfLen(n - 1), e \in ProjEntries(n)}

ProjStores == UNION {ProjStoresOfLen(n) : n \in 0..ProjLen}

ProjInit ==
    /\ \E s \in ProjStores : InitWith(s, Len(s))
    /\ active = {"g1", "p1"}

ProjNext ==
    \E c \in {"g1", "p1"} :
        \/ OpenWiki(c)
        \/ \E id \in 1..ProjLen : ClickEntryItem(c, id)
        \/ \E id \in 1..ProjLen : ClickEntryLink(c, id)

ProjSpec == ProjInit /\ [][ProjNext]_vars

\* LockSpec: one client receives the editing and presence signals of two
\* players in any order
LockSignals ==
    {EditingStart(id, u) : id \in 1..MaxIds, u \in Players}
        \cup {EditingStop(id, u) : id \in 1..MaxIds, u \in Players}
        \cup {UserDisconnected(u) : u \in Players}
        \cup {UserJoined(u) : u \in Players}

LockInit == InitWith(TwoEntries, 3) /\ active = {"g1"}

LockNext ==
    \E c \in {"g1"} :
        \/ OpenWiki(c)
        \/ \E m \in LockSignals : Arrive(c, m)
        \/ Deliver(c)

LockSpec == LockInit /\ [][LockNext]_vars

\* LifeSpec: in a new world a player creates entries, edits them and comments
\* on them, all relayed through a GM who deletes entries
LifeStep(c) ==
    \/ ClickNew(c)
    \/ \E t \in Titles :
          EditForm(c, t, editor[c].category, editor[c].gmNotes, editor[c].hidden)
    \/ HandleSave(c)
    \/ ClickEdit(c)
    \/ TypeComment(c, "hi")
    \/ SubmitComment(c)

LifeNext ==
    \/ \E c \in {"g1", "p1"} :
          \/ Connect(c)
          \/ OpenWiki(c)
          \/ \E id \in 1..MaxIds : ClickEntryItem(c, id)
          \/ HostStep(c)
    \/ LifeStep("p1")
    \/ GmDelete("g1")

LifeSpec == Init /\ [][LifeNext]_vars

\* ModerateSpec: a GM and a player select, hide, delete and uncomment the
\* entries of a world whose first entry links to the second
ModerateWorld ==
    <<[Entry(1, <<"i">>, Lore, <<"[", "[", "d", "]", "]">>, FALSE, Undefined) EXCEPT
          !.comments = <<Comment(3, "p2", "hi"), Comment(4, "p1", "hi")>>],
      Entry(2, <<"D">>, Lore, <<>>, FALSE, "s")>>

ModerateInit == InitWith(ModerateWorld, 4) /\ active = {}

ModerateStep(c) ==
    \/ OpenWiki(c)
    \/ \E id \in 1..MaxIds : ClickEntryItem(c, id)
    \/ \E id \in 1..MaxIds : ClickEntryLink(c, id)
    \/ ToggleHidden(c)
    \/ GmDelete(c)
    \/ \E commentId \in {3, 4} : DeleteComment(c, commentId)

ModerateNext ==
    \E c \in {"g1", "p1"} : Connect(c) \/ ModerateStep(c) \/ HostStep(c)

ModerateSpec == ModerateInit /\ [][ModerateNext]_vars

\* CatSpec: a GM edits the category set in the settings window and saves it,
\* while a player's wiki window hears of the changes
CatLabels == {<<" ">>, <<"D", " ", "!">>}

CatTyped == {<<" ">>, <<"i">>}

CatNows == {<<"1">>}

CatIds == Cats \cup {slug(label, now) : label \in CatLabels, now \in CatNows}

CatInit == InitWith(TwoEntries, 2) /\ active = {"g1", "p1"}

CatNext ==
    \/ \E c \in {"g1", "p1"} : OpenWiki(c)
    \/ OpenCatSettings("g1")
    \/ \E i \in 1..MaxCats, value \in CatTyped : TypeCatLabel("g1", i, value)
    \/ \E catId \in CatIds, ok \in BOOLEAN : DeleteCategory("g1", catId, ok)
    \/ \E catId \in CatIds, up \in BOOLEAN : MoveCategory("g1", catId, up)
    \/ \E typed \in CatLabels, now \in CatNows : AddCategory("g1", typed, now)
    \/ SaveCategories("g1")
    \/ CategoriesWritten("g1")
    \/ CategoriesSaved("g1")
    \/ CategoriesRefused("g1")
    \/ CancelCatSettings("g1")
    \/ \E cat \in Cats : ClickCatTab("p1", cat)
    \/ Deliver("p1")

CatSpec == CatInit /\ [][CatNext]_vars

\* PresenceSpec: a GM and two players, connected throughout, open and close
\* editors on the one stored entry in any order
PresenceInit == InitWith(OneEntry, 1) /\ active = {"g1", "p1", "p2"}

PresenceStep(c) ==
    \/ OpenWiki(c)
    \/ ClickEntryItem(c, 1)
    \/ ClickEdit(c)
    \/ CloseEditor(c)
    \/ Deliver(c)

PresenceNext == \E c \in {"g1", "p1", "p2"} : PresenceStep(c)

PresenceSpec == PresenceInit /\ [][PresenceNext]_vars

\* LeaveSpec: as PresenceSpec, and the second player may leave
LeaveNext == PresenceNext \/ Disconnect("p2")

LeaveSpec == PresenceInit /\ [][LeaveNext]_vars

\* SerialSpec: a player's saves follow one another closely enough for the
\* GM to be handed the second requestSave while the write of the first is
\* awaited
SerialInit == InitWith(<<>>, 0) /\ active = {"g1", "p1"}

SerialNext ==
    \/ CreateStep("p1")
    \/ Deliver("p1")
    \/ DeliverUpTo("g1", MaxRelays)
    \/ WriteDone("g1")
    \/ WriteFail("g1")

SerialSpec == SerialInit /\ [][SerialNext]_vars

\* FocusSpec: on one client wiki windows and an editor open, the editor
\* closes, and refreshes start renders that end in any order
FocusInit == InitWith(OneEntry, 1) /\ active = {"p1"}

FocusNext ==
    \E c \in {"p1"} :
        \/ \E w \in WikiApps : ShowWikiApp(c, w)
        \/ ShowEditor(c)
        \/ HideEditor(c)
        \/ RefreshAll(c)
        \/ \E k \in 1..MaxRenders, w \in WikiApps, raised \in BOOLEAN :
              RenderDone(c, k, w, raised)

FocusSpec == FocusInit /\ [][FocusNext]_vars

\* CrowdSpec: two players create entries, the first titled D and the second
\* titled i, and relay them through the one GM
CrowdInit == InitWith(<<>>, 0) /\ active = {"g1", "p1", "p2"}

CrowdStep(c, title) ==
    \/ OpenWiki(c)
    \/ ClickNew(c)
    \/ EditForm(c, title, editor[c].category, editor[c].gmNotes, editor[c].hidden)
    \/ HandleSaveUpTo(c, MaxFlight)
    \/ Deliver(c)

CrowdNext ==
    \/ CrowdStep("p1", <<"D">>)
    \/ CrowdStep("p2", <<"i">>)
    \/ Deliver("g1")
    \/ WriteDone("g1")

CrowdSpec == CrowdInit /\ [][CrowdNext]_vars

\* SecretSpec: a player edits the stored entry while the GM hides and
\* unhides it
SecretInit == InitWith(OneEntry, 1) /\ active = {"g1", "p1"}

SecretNext ==
    \/ \E c \in {"g1", "p1"} : OpenWiki(c) \/ ClickEntryItem(c, 1) \/ Deliver(c)
    \/ ToggleHidden("g1")
    \/ WriteDone("g1")
    \/ ClickEdit("p1")
    \/ EditForm("p1", <<"i">>, editor["p1"].category, editor["p1"].gmNotes,
                 editor["p1"].hidden)
    \/ HandleSaveUpTo("p1", MaxFlight)

SecretSpec == SecretInit /\ [][SecretNext]_vars

\* HandoffSpec: a Player relays new entries to a GM that may leave and come
\* back; every queued message is eventually handled and every started write
\* eventually completes
HandoffInit == InitWith(<<>>, 0) /\ active = {"g1", "p1"}

HandoffNext ==
    \/ Connect("g1")
    \/ Disconnect("g1")
    \/ OpenWiki("p1")
    \/ ClickNew("p1")
    \/ EditForm("p1", <<"D">>, editor["p1"].category, editor["p1"].gmNotes,
                 editor["p1"].hidden)
    \/ HandleSave("p1")
    \/ \E c \in {"g1", "p1"} : Deliver(c)
    \/ WriteDone("g1")

HandoffFairness ==
    /\ \A c \in {"g1", "p1"} : WF_vars(Deliver(c))
    /\ WF_vars(WriteDone("g1"))

HandoffSpec == HandoffInit /\ [][HandoffNext]_vars /\ HandoffFairness

\* the same without the GM leaving
SteadyNext == HandoffNext /\ active' = active

SteadySpec == HandoffInit /\ [][SteadyNext]_vars /\ HandoffFairness

\* DuelSpec: two GMs create entries and commit them while the other's write
\* is still awaited
DuelInit == InitWith(<<>>, 0) /\ active = {"g1", "g2"}

DuelStep(c, title) ==
    \/ OpenWiki(c)
    \/ ClickNew(c)
    \/ EditForm(c, title, editor[c].category, editor[c].gmNotes, editor[c].hidden)
    \/ HandleSaveUpTo(c, MaxFlight)
    \/ Deliver(c)
    \/ WriteDone(c)

DuelNext == DuelStep("g1", <<"D">>) \/ DuelStep("g2", <<"i">>)

DuelSpec == DuelInit /\ [][DuelNext]_vars

\* DisciplineSpec: editors for the stored entry and for new entries are
\* opened, rendered again, saved and closed
DisciplineInit == InitWith(OneEntry, 1) /\ active = {"g1", "p1"}

DisciplineStep(c) ==
    \/ OpenWiki(c)
    \/ ClickNew(c)
    \/ RerenderEditor(c)
    \/ CloseEditor(c)
    \/ Deliver(c)

DisciplineNext ==
    \/ \E c \in {"g1", "p1"} : DisciplineStep(c)
    \/ ClickEntryItem("p1", 1)
    \/ ClickEdit("p1")
    \/ EditForm("p1", <<"i">>, editor["p1"].category, editor["p1"].gmNotes,
                 editor["p1"].hidden)
    \/ HandleSave("p1")
    \/ WriteDone("g1")

DisciplineSpec == DisciplineInit /\ [][DisciplineNext]_vars

\* PendingSpec: deletion is requested and cancelled, entries are edited,
\* hidden and removed, on a store whose second entry awaits deletion
PendingWorld ==
    <<Entry(1, <<"D">>, Lore, <<>>, FALSE, Undefined),
      [Entry(2, <<"i">>, Lore, <<>>, FALSE, "s") EXCEPT !.pendingDelete = TRUE]>>

PendingInit == InitWith(PendingWorld, 2) /\ active = {"g1", "p1"}

PendingStep(c) ==
    \/ OpenWiki(c)
    \/ ClickEntryItem(c, IF isGM(c) THEN 2 ELSE 1)
    \/ \E ok \in BOOLEAN : RequestDelete(c, ok)
    \/ CancelDelete(c)
    \/ ClickEdit(c)
    \/ HandleSave(c)
    \/ Deliver(c)

PendingNext ==
    \/ \E c \in {"g1", "p1"} : PendingStep(c)
    \/ ToggleHidden("g1")
    \/ GmDelete("g1")
    \/ WriteDone("g1")

PendingSpec == PendingInit /\ [][PendingNext]_vars

\* FrameSpec: a Player edits and saves the first of two stored entries that
\* carry their creation and update stamps
Audited(e, by) ==
    [createdAt |-> 0, createdBy |-> by, updatedAt |-> 0, updatedBy |-> by] @@ e

FrameWorld ==
    <<Audited([Entry(1, <<"D">>, Lore, <<>>, FALSE, "s") EXCEPT
                  !.comments = <<Comment(3, "p2", "hi")>>, !.pendingDelete = TRUE],
              "g1"),
      Audited(Entry(2, <<"i">>, Npcs, <<>>, TRUE, "s"), "p2")>>

FrameInit == InitWith(FrameWorld, 4) /\ active = {"g1", "p1"}

FrameNext ==
    \/ OpenWiki("p1")
    \/ ClickEntryItem("p1", 1)
    \/ ClickEdit("p1")
    \/ \E t \in {<<"D">>, <<"i">>} : \E cat \in Cats :
          EditForm("p1", t, cat, editor["p1"].gmNotes, editor["p1"].hidden)
    \/ HandleSave("p1")
    \/ \E c \in {"g1", "p1"} : Deliver(c)
    \/ WriteDone("g1")

FrameSpec == FrameInit /\ [][FrameNext]_vars

\* TitleSpec: editors on the stored entry and on new entries are saved with
\* blank and non-blank titles
FormTitles == {<<" ">>, <<" ", "i">>}

TitleInit == InitWith(OneEntry, 1) /\ active = {"g1", "p1"}

TitleStep(c) ==
    \/ OpenWiki(c)
    \/ ClickNew(c)
    \/ \E t \in FormTitles :
          EditForm(c, t, editor[c].category, editor[c].gmNotes, editor[c].hidden)
    \/ HandleSave(c)
    \/ Deliver(c)

TitleNext ==
    \/ TitleStep("p1")
    \/ ClickEntryItem("p1", 1)
    \/ ClickEdit("p1")
    \/ Deliver("g1")
    \/ WriteDone("g1")

TitleSpec == TitleInit /\ [][TitleNext]_vars

\* StaleSpec: a Player has the editor open on an entry the GM deletes
StaleWorld ==
    <<Entry(1, <<"D">>, Lore, <<>>, FALSE, Undefined),
      Entry(2, <<"i">>, Lore, <<>>, FALSE, Undefined)>>

StaleInit == InitWith(StaleWorld, 2) /\ active = {"g1", "p1"}

StaleNext ==
    \/ \E c \in {"g1", "p1"} : OpenWiki(c) \/ ClickEntryItem(c, 1) \/ Deliver(c)
    \/ ClickEdit("p1")
    \/ EditForm("p1", <<"D", "i">>, editor["p1"].category, editor["p1"].gmNotes,
                 editor["p1"].hidden)
    \/ HandleSave("p1")
    \/ GmDelete("g1")
    \/ WriteDone("g1")

StaleSpec == StaleInit /\ [][StaleNext]_vars

\* LinkSpec: windows render the first entry of stores whose titles differ
\* in case only or not at all, over contents with references that match one
\* entry, several, or none
LinkTitles == {<<"D">>, <<"d">>, <<"i">>}

LinkContents ==
    { <<"[", "[", "d", " ", "]", "]">>,
      <<"a", "[", "[", "D", "]", "]", "[", "[", "x", "]", "]">>,
      <<"[", "[", " ", "]", "]", "[", "[", "i", "]">> }

LinkStores ==
    {<<Entry(1, t1, Lore, body, FALSE, Undefined)>> :
        t1 \in LinkTitles, body \in LinkContents}
    \cup
    {<<Entry(1, t1, Lore, body, FALSE, Undefined),
       Entry(2, t2, Lore, <<>>, FALSE, Undefined)>> :
        t1 \in LinkTitles, t2 \in LinkTitles, body \in LinkContents}

LinkInit ==
    /\ \E s \in LinkStores : InitWith(s, Len(s))
    /\ active = {"g1", "p1"}

LinkNext ==
    \E c \in {"g1", "p1"} :
        \/ OpenWiki(c)
        \/ \E id \in 1..2 : ClickEntryItem(c, id)
        \/ \E id \in 1..2 : ClickEntryLink(c, id)

LinkSpec == LinkInit /\ [][LinkNext]_vars

---------------------------------------------------------------------------
(* Steps the properties speak of *)

SaveOps ==
    {"HandleSave", "SubmitComment", "ToggleHidden", "GmDelete", "DeleteComment",
     "RequestDelete", "CancelDelete"}

\* the step is a handler of a Player-role client calling saveEntries
PlayerSaveStep ==
    /\ last'.op \in SaveOps
    /\ last'.result \notin {"invalid", "return"}
    /\ ~isGM(last'.client)

\* the step completes the settings write a GM awaited in saveEntries
DirectCommitStep == last'.op = "WriteDone" /\ last'.result # "relay"

\* the step completes the settings write of a GM's requestSave handler
RelayCommitStep == last'.op = "WriteDone" /\ last'.result = "relay"

\* the step is the socket handler taking a requestSave
RequestSaveStep == last'.op = "Deliver" /\ last'.result = "requestSave"

CountRefresh(msgs) ==
    Cardinality({i \in 1..Len(msgs) : msgs[i].action = "refresh"})

---------------------------------------------------------------------------
\* C1: a Player's saveEntries while no GM is connected returns false (blocked)
\* and the collection any client reads afterwards is the one read before
BlockedRelay ==
    [][(PlayerSaveStep /\ ~activeGM) =>
          /\ last'.result = "false"
          /\ getEntries'.val = getEntries.val
          /\ last'.emitted = <<>>
          /\ writing' = writing]_vars

BlockedRelayWitness ==
    /\ last.op = "HandleSave"
    /\ last.client = "p1"
    /\ last.result = "false"
    /\ ~activeGM
    /\ store # <<>>

\* C2: when the settings write of a GM's saveEntries(E) completes, a read
\* returns exactly E and exactly one refresh message has been broadcast
GMDirectCommit ==
    [][DirectCommitStep =>
          /\ getEntries'.val = Head(writing[last'.client]).entries
          /\ CountRefresh(last'.emitted) = 1]_vars

GMDirectCommitWitness ==
    /\ last.op = "WriteDone"
    /\ last.result = "editor"
    /\ last.client = "g1"
    /\ store # <<>>
    /\ "p1" \in active
    /\ inbox["p1"] # <<>>

\* C3: a Player's saveEntries(E) with a GM connected returns true in the
\* calling step, emitting requestSave(E) and writing nothing; a GM's handler
\* taking the message writes its entries, and once that write completes a
\* read returns them
SuccessfulRelay ==
    /\ [][(PlayerSaveStep /\ activeGM) =>
             /\ last'.result = "true"
             /\ last'.emitted # <<>>
             /\ last'.emitted[1].action = "requestSave"
             /\ store' = store
             /\ writing' = writing]_vars
    /\ [][(RequestSaveStep /\ isGM(last'.client)) =>
             /\ writing'[last'.client] # <<>>
             /\ writing'[last'.client][Len(writing'[last'.client])].entries
                   = Head(inbox[last'.client]).entries]_vars
    /\ [][RelayCommitStep =>
             getEntries'.val = Head(writing[last'.client]).entries]_vars

SuccessfulRelayWitness ==
    /\ last.op = "WriteDone"
    /\ last.result = "relay"
    /\ store # <<>>
    /\ "p1" \in active
    /\ ~editor["p1"].open

\* C4: the store changes only in a step of a GM-role client; a non-GM client
\* taking a requestSave message leaves the store alone, starts no write and
\* broadcasts nothing
SingleWriter ==
    /\ [][store' # store => isGM(last'.client) /\ last'.op = "WriteDone"]_vars
    /\ [][(RequestSaveStep /\ ~isGM(last'.client)) =>
             /\ store' = store
             /\ writing' = writing
             /\ \A u \in Users \ {last'.client} : inbox'[u] = inbox[u]]_vars

SingleWriterWitness ==
    /\ last.op = "Deliver"
    /\ last.result = "requestSave"
    /\ last.client = "p2"
    /\ store = <<>>

\* C7: a Player's save of a new entry with no GM connected returns false and
\* leaves the editor open with what was entered and the store as it was;
\* retried from that editor with a GM connected it returns true and relays the
\* collection read plus one new entry, so that, the store holding no entry of
\* that title and category, the relayed collection holds exactly one; a GM's
\* handler writes the relayed collection and the store then equals it
EndToEnd ==
    /\ [][(PlayerSaveStep /\ last'.op = "HandleSave" /\ ~activeGM) =>
             /\ last'.result = "false"
             /\ editor[last'.client].open
             /\ editor'[last'.client] = [editor[last'.client] EXCEPT !.blocked = TRUE]
             /\ store' = store]_vars
    /\ [][(PlayerSaveStep /\ last'.op = "HandleSave" /\ last'.retry
              /\ editor[last'.client].entry = <<>> /\ activeGM) =>
             LET ed == editor[last'.client]
                 E  == last'.emitted[1].entries
             IN  /\ last'.result = "true"
                 /\ last'.emitted[1].action = "requestSave"
                 /\ Len(E) = Len(store) + 1
                 /\ SubSeq(E, 1, Len(store)) = store
                 /\ CountOf(E, trim(ed.title), ed.category)
                       = CountOf(store, trim(ed.title), ed.category) + 1
                 /\ \A g \in GMs \cap active :
                       inbox'[g][Len(inbox'[g])] = last'.emitted[1]]_vars
    /\ [][(RequestSaveStep /\ isGM(last'.client)) =>
             writing'[last'.client] =
                Append(writing[last'.client],
                       WriteOp(Head(inbox[last'.client]).entries, "relay"))]_vars
    /\ [][RelayCommitStep => store' = Head(writing[last'.client]).entries]_vars

EndToEndWitness ==
    /\ last.op = "WriteDone"
    /\ last.result = "relay"
    /\ last.client = "g1"
    /\ Len(store) = 1
    /\ CountOf(store, <<"D">>, Lore) = 1
    /\ nextId = 2

EndToEndRetryWitness ==
    /\ last.op = "HandleSave"
    /\ last.client = "p1"
    /\ last.retry
    /\ last.result = "true"
    /\ store = <<>>
    /\ CountOf(last.emitted[1].entries, <<"D">>, Lore) = 1

\* C8: a blocked editor save leaves the editor open with its contents, keeps
\* the soft lock and broadcasts nothing (no editingStop); a blocked comment
\* submission leaves the comment input as it was
BlockedKeepsEditState ==
    /\ [][(last'.op = "HandleSave" /\ last'.result = "false") =>
             /\ editor[last'.client].open
             /\ editor'[last'.client] = [editor[last'.client] EXCEPT !.blocked = TRUE]
             /\ activeEditors' = activeEditors
             /\ last'.emitted = <<>>
             /\ inbox' = inbox]_vars
    /\ [][(last'.op = "SubmitComment" /\ last'.result = "false") =>
             /\ wiki'[last'.client].input = wiki[last'.client].input
             /\ wiki'[last'.client].input # ""]_vars

BlockedKeepsEditStateWitness ==
    /\ last.op = "HandleSave"
    /\ last.result = "false"
    /\ last.client = "p1"
    /\ editor["p1"].open
    /\ editor["p1"].broadcastedStart
    /\ editor["p1"].entry # <<>>
    /\ editor["p1"].title # editor["p1"].entry[1].title
    /\ activeEditors["p1"][1] = "p1"
    /\ wiki["p1"].input = "hi"

\* C9: a change a caller makes in place to the collection getEntries gave it
\* (a push, a field of an entry, a comment pushed onto an entry) leaves what
\* the next getEntries returns as it was
ReadIsolation ==
    [][last'.op \in {"MutatePush", "MutateField", "MutateComment"} =>
          getEntries'.val = getEntries.val]_vars

ReadIsolationWitness ==
    /\ last.op = "MutateComment"
    /\ store = TwoEntries
    /\ handle # <<>>
    /\ Len(handle[1].val) = Len(store)
    /\ handle[1].val[1].title # store[1].title
    /\ handle[1].val[1].comments # store[1].comments
    /\ getEntries.val = TwoEntries

\* C10: whatever the store, the search query and the active category, the
\* list a Player-role window renders holds no hidden entry
HiddenRedaction ==
    \A c \in Players :
        wiki[c].ctx # <<>> =>
            \A i \in 1..Len(wiki[c].ctx[1].entries) : ~wiki[c].ctx[1].entries[i].hidden

HiddenRedactionWitness ==
    /\ wiki["p1"].ctx # <<>>
    /\ wiki["g1"].ctx # <<>>
    /\ wiki["p1"].searchQuery = <<"d">>
    /\ wiki["g1"].searchQuery = <<"d">>
    /\ Len(wiki["p1"].ctx[1].entries) = 1
    /\ Len(wiki["g1"].ctx[1].entries) = 2
    /\ \E i \in 1..2 : wiki["g1"].ctx[1].entries[i].hidden

\* the window of client c shows the projection of the store as it is now
Converged(c) ==
    (c \in active /\ wiki[c].open) =>
        wiki[c].ctx = <<_prepareContext(c, wiki[c], store).ctx>>

\* C5: with messages delivered, every connected client with an open wiki
\* window comes to show the committed collection after every commit
Convergence == \A c \in {"g1", "p1"} : []<>Converged(c)

ConvergenceWitness ==
    /\ last.op = "Deliver"
    /\ last.result = "refresh"
    /\ last.client = "p1"
    /\ wiki["p1"].open
    /\ store # <<>>
    /\ wiki["p1"].ctx[1].entries = store

\* C6: a client owed a setting-changed notification comes to show the
\* committed collection even when the refresh message to it is lost
FallbackConvergence ==
    \A c \in {"g1", "p1"} : (hooks[c] /\ ~Converged(c)) ~> Converged(c)
\* the entries of the store a reference to `title` matches
Matches(title) ==
    {i \in 1..Len(store) : toLowerCase(store[i].title) = toLowerCase(title)}

\* C11: in the content a Player-role window renders, a [[Title]] reference
\* whose title matches hidden entries only is a broken link; in a GM-role
\* window a reference that matches an entry is a link to such an entry
LinkRedaction ==
    \A c \in {"g1", "p1"} :
        wiki[c].ctx # <<>> =>
            \A k \in 1..Len(wiki[c].ctx[1].enrichedContent) :
                LET node == wiki[c].ctx[1].enrichedContent[k]
                    hits == Matches(node.text)
                IN  (node.tag # "text" /\ hits # {}) =>
                        IF isGM(c)
                        THEN node.tag = "link" /\ node.id \in {store[i].id : i \in hits}
                        ELSE (\A i \in hits : store[i].hidden) => node.tag = "missing"

\* C12: nothing in the context of a Player-role window carries the gmNotes
\* of a stored entry: not its gmNotes field, not current, not a listed entry
GmNotesExcluded ==
    \A c \in Players :
        wiki[c].ctx # <<>> =>
            LET ctx == wiki[c].ctx[1]
            IN  /\ ctx.gmNotes = None
                /\ ctx.current # <<>> => ctx.current[1].gmNotes = Undefined
                /\ \A i \in 1..Len(ctx.entries) : ctx.entries[i].gmNotes = Undefined

\* the step leaves client c's window with a projection made in it
Projected(c) ==
    /\ wiki'[c].open
    /\ wiki'[c].ctx # <<>>
    /\ \/ wiki'[c].ctx # wiki[c].ctx
       \/ /\ last'.client = c
          /\ \/ last'.op = "ClickEntryLink"
             \/ last'.op = "Deliver" /\ last'.result = "refresh"

\* entry id is hidden in, or absent from, the collection
Unseen(entries, id) ==
    \/ findEntry(entries, id) = <<>>
    \/ findEntry(entries, id)[1].hidden

\* C13: a projection made for a Player whose selected entry is by then hidden
\* or gone from the store has no selection and no current entry, whether the
\* entry was selected in the list before or by a link in that very step; a
\* selection a Player's projection keeps is a visible stored entry
SelectionAutoClear ==
    [][\A c \in Players :
          Projected(c) =>
              /\ (wiki[c].selected # NoId /\ Unseen(store', wiki[c].selected)) =>
                    wiki'[c].selected # wiki[c].selected
              /\ (wiki[c].selected # NoId /\ Unseen(store', wiki[c].selected)
                     /\ last'.op = "Deliver") =>
                    (wiki'[c].selected = NoId /\ wiki'[c].ctx[1].current = <<>>)
              /\ wiki'[c].selected # NoId =>
                    /\ ~Unseen(store', wiki'[c].selected)
                    /\ wiki'[c].ctx[1].current = findEntry(store', wiki'[c].selected)
              /\ wiki'[c].selected = NoId => wiki'[c].ctx[1].current = <<>>]_vars

SelectionAutoClearWitness ==
    /\ last.op = "ClickEntryLink"
    /\ last.client = "p1"
    /\ Len(store) = 2
    /\ store[2].hidden
    /\ LinkIds(wiki["p1"].ctx[1].enrichedContent) = {}
    /\ wiki["p1"].selected = NoId
    /\ wiki["p1"].ctx[1].current = <<>>

\* the entries a step of client c hands to saveEntries: those of the write it
\* starts or of the requestSave it emits, the store's when it does neither
Handed(c) ==
    IF writing'[c] # writing[c] THEN writing'[c][Len(writing'[c])].entries
    ELSE IF last'.emitted # <<>> /\ last'.emitted[1].action = "requestSave"
    THEN last'.emitted[1].entries
    ELSE store

\* C16: a delete-comment step removes only comments its client wrote, unless
\* the client is a GM; on the comment of another user a non-GM's step writes
\* and relays nothing
CommentOwnership ==
    [][last'.op = "DeleteComment" =>
          LET c == last'.client
              E == Handed(c)
          IN  \A i \in 1..Len(store) : \A k \in 1..Len(store[i].comments) :
                  (\A n \in 1..Len(E[i].comments) :
                        E[i].comments[n] # store[i].comments[k]) =>
                      (isGM(c) \/ store[i].comments[k].userId = c)]_vars

\* C17: a permanent delete invoked on a non-GM client writes nothing, relays
\* nothing and leaves the store as it is
GmDeleteGMOnly ==
    [][(last'.op = "GmDelete" /\ ~isGM(last'.client)) =>
          /\ last'.emitted = <<>>
          /\ writing' = writing
          /\ store' = store]_vars

\* C18: a hidden-toggle invoked on a non-GM client writes and relays nothing;
\* invoked by a GM on selected entry X it writes the store with X.hidden
\* negated and nothing else changed, and that is what the store then holds
HideToggleGMOnly ==
    /\ [][(last'.op = "ToggleHidden" /\ ~isGM(last'.client)) =>
             /\ last'.emitted = <<>>
             /\ inbox' = inbox
             /\ writing' = writing
             /\ store' = store]_vars
    /\ [][(last'.op = "ToggleHidden" /\ isGM(last'.client)
              /\ last'.result # "return") =>
             LET c   == last'.client
                 idx == findIndex(store, wiki[c].selected)
             IN  /\ idx # 0
                 /\ Handed(c) = [store EXCEPT ![idx].hidden = ~@]
                 /\ writing'[c] # writing[c]]_vars
    /\ [][(last'.op = "WriteDone" /\ last'.result = "toggle") =>
             store' = Head(writing[last'.client]).entries]_vars

HideToggleGMOnlyWitness ==
    /\ last.op = "WriteDone"
    /\ last.result = "toggle"
    /\ last.client = "g1"
    /\ Len(store) = 2
    /\ store[2].hidden
    /\ store[1] = ModerateWorld[1]
    /\ "p1" \in active

\* the step is the socket handler, or the userConnected hook, taking a
\* message of this kind
Took(action) ==
    /\ last'.op = "Deliver"
    /\ last'.took # <<>>
    /\ last'.took[1].action = action

\* C14: on the client receiving them, editingStart(X, u1) leaves X locked by
\* u1; with X locked by u1, editingStop(X, u1) leaves X unlocked and
\* editingStop(X, u2) of another user leaves X locked by u1; no other entry's
\* lock changes
LockLifecycle ==
    /\ [][Took("editingStart") =>
             LET c == last'.client
                 m == last'.took[1]
             IN  /\ activeEditors'[c][m.entryId] = m.userId
                 /\ \A id \in DOMAIN activeEditors[c] \ {m.entryId} :
                       activeEditors'[c][id] = activeEditors[c][id]]_vars
    /\ [][Took("editingStop") =>
             LET c == last'.client
                 m == last'.took[1]
             IN  /\ activeEditors[c][m.entryId] = m.userId =>
                       activeEditors'[c][m.entryId] = None
                 /\ activeEditors[c][m.entryId] # m.userId =>
                       activeEditors'[c][m.entryId] = activeEditors[c][m.entryId]
                 /\ \A id \in DOMAIN activeEditors[c] \ {m.entryId} :
                       activeEditors'[c][id] = activeEditors[c][id]]_vars

LockLifecycleWitness ==
    /\ last.op = "Deliver"
    /\ last.client = "g1"
    /\ last.took = <<EditingStop(1, "p2")>>
    /\ activeEditors["g1"][1] = "p1"
    /\ wiki["g1"].open

\* C15: on a disconnect signal for user u a client drops every lock u holds
\* and keeps every other lock as it is; a connect signal changes no lock
DisconnectCleanup ==
    [][Took("userConnected") =>
          LET c == last'.client
              m == last'.took[1]
          IN  IF m.connected
              THEN activeEditors'[c] = activeEditors[c]
              ELSE \A id \in DOMAIN activeEditors[c] :
                      activeEditors'[c][id] =
                          IF activeEditors[c][id] = m.userId THEN None
                          ELSE activeEditors[c][id]]_vars

\* p1 has gone, and p2's lock on the second entry is still there
DisconnectCleanupWitness ==
    /\ last.op = "Deliver"
    /\ last.client = "g1"
    /\ last.took = <<UserDisconnected("p1")>>
    /\ activeEditors["g1"][1] = None
    /\ activeEditors["g1"][2] = "p2"

\* C19: the stored collection never holds two entries with the same id
UniqueIds ==
    \A i, j \in 1..Len(store) : i # j => store[i].id # store[j].id

\* two entries stored, the second created after the first had been saved
UniqueIdsWitness ==
    /\ last.op = "WriteDone"
    /\ Len(store) = 2
    /\ store[1].id = 1
    /\ store[2].id = 2

\* a save is clicked in c's settings window whose working set, the label
\* inputs read back, is empty or holds a blank label
SaveOfInvalid(c) ==
    LET synced == _syncFromDOM(catApp[c].working, catApp[c].rows)
    IN  /\ last'.op = "SaveCategories"
        /\ last'.client = c
        /\ last'.result \in {"warn", "pending"}
        /\ \/ synced = <<>>
           \/ \E i \in 1..Len(synced) : trim(synced[i].label) = <<>>

\* C20: the stored category set is never empty and holds no category with
\* a blank label; a save of a working set that is empty or holds a blank
\* label ends in a warning, awaits no write and leaves the stored set as
\* it was
CategoryInvariant ==
    /\ [](categories # <<>>)
    /\ [](\A i \in 1..Len(categories) : trim(categories[i].label) # <<>>)
    /\ [][\A c \in Users :
             SaveOfInvalid(c) =>
                /\ last'.result = "warn"
                /\ catApp'[c].pending = <<>>
                /\ categories' = categories
                /\ inbox' = inbox]_vars

\* a changed set has been stored, and the save of a window whose last
\* category was removed has just been refused
CategoryInvariantWitness ==
    /\ last.op = "SaveCategories"
    /\ last.result = "warn"
    /\ catApp[last.client].open
    /\ catApp[last.client].working = <<>>
    /\ catApp[last.client].pending = <<>>
    /\ categories # DEFAULT_CATEGORIES
    /\ categories # <<>>

\* no editingStart or editingStop is on its way to any client
PresenceDelivered ==
    \A u \in Users : \A i \in 1..Len(inbox[u]) :
        inbox[u][i].action \notin {"editingStart", "editingStop"}

\* C21: once every editingStart and editingStop has been delivered, the
\* clients connected throughout hold the same presence map
PresenceAgreement ==
    PresenceDelivered =>
        \A u, v \in active : activeEditors[u] = activeEditors[v]

\* client u has entry id open in an editor
Editing(u, id) ==
    /\ editor[u].open
    /\ editor[u].entry # <<>>
    /\ editor[u].entry[1].id = id

\* a message is on its way to c that takes user u's lock on entry id away
Releasing(c, id, u) ==
    \E i \in 1..Len(inbox[c]) :
        \/ inbox[c][i] = EditingStop(id, u)
        \/ inbox[c][i] = UserDisconnected(u)

SerializedHandling ==
    [][(Took("requestSave") /\ isGM(last'.client)) =>
          writing[last'.client] = <<>>]_vars

\* C24: a rejected settings write makes the awaiting code throw: nothing is
\* broadcast, the store and the windows stay as they were, and the result is
\* not the blocked one; false is returned to a Player with no GM connected
\* and in no other case
BlockedVersusFailure ==
    /\ [][last'.op = "WriteFail" =>
             /\ last'.result = "throw"
             /\ last'.emitted = <<>>
             /\ inbox' = inbox
             /\ store' = store
             /\ editor' = editor
             /\ wiki' = wiki]_vars
    /\ [][(last' # last /\ last'.result = "false") =>
             /\ last'.op \in SaveOps
             /\ ~isGM(last'.client)
             /\ ~activeGM]_vars

\* the write of a GM's editor save has been rejected: the editor is still
\* open with what was entered, and nothing was stored
BlockedVersusFailureWitness ==
    /\ last.op = "WriteFail"
    /\ last.client = "g1"
    /\ editor["g1"].open
    /\ editor["g1"].title = <<"D">>
    /\ ~editor["g1"].blocked
    /\ "p1" \in active
    /\ inbox["p1"] = <<>>
    /\ store = <<>>

\* the refreshes under way on c that found an editor and whose last render
\* ends if window w's does
LastRender(c, w) ==
    {k \in 1..Len(windows[c].renders) :
        /\ windows[c].renders[k].editor # NoApp
        /\ windows[c].renders[k].waits = {w}}

\* the refreshes under way on c that have a render of window w to wait for
Rendering(c, w) ==
    {k \in 1..Len(windows[c].renders) : w \in windows[c].renders[k].waits}

\* C25: a refresh with an editor open calls bringToFront on it when the last
\* of the renders the refresh started has ended, not before, and does so for
\* every such refresh: at once when no wiki window is open, else in the step
\* that ends the refresh's last render, which leaves the editor in front
EditorFocusOrdering ==
    /\ [][\A c \in Users :
             (last'.op = "RefreshAll" /\ last'.client = c) =>
                 /\ last'.result = "bringToFront" <=>
                        (windows[c].activeEditorApp # NoApp
                            /\ windows[c].openWikiApps = {})
                 /\ last'.result = "bringToFront" => windows'[c].front = "editor"]_vars
    /\ [][\A c \in Users :
             (last'.op = "RenderDone" /\ last'.client = c) =>
                 \E w \in WikiApps :
                    /\ Rendering(c, w) # {}
                    /\ \E k \in Rendering(c, w) :
                          /\ Len(windows'[c].renders) <= Len(windows[c].renders)
                          /\ last'.result = "bringToFront" <=> k \in LastRender(c, w)
                          /\ (k \in LastRender(c, w)
                                 /\ windows[c].activeEditorApp = windows[c].renders[k].editor)
                                 => windows'[c].front = "editor"]_vars

\* with two wiki windows and the editor open, a refresh's second render has
\* ended and the editor is in front
EditorFocusOrderingWitness ==
    /\ last.op = "RenderDone"
    /\ last.result = "bringToFront"
    /\ windows["p1"].openWikiApps = WikiApps
    /\ windows["p1"].activeEditorApp # NoApp
    /\ windows["p1"].front = "editor"
    /\ windows["p1"].renders = <<>>

\* C26: the commit of a Player's relayed save takes no entry of another
\* player's out of the store. In CrowdSpec the first player's entries are
\* titled D and the second's i, and no handler deletes entries: a commit
\* that stores an entry of one player keeps every stored entry of the other.
NoLostUpdate ==
    [][RelayCommitStep =>
          \A i \in 1..Len(store) :
             (\E j \in 1..Len(store') : store'[j].title # store[i].title) =>
                \E k \in 1..Len(store') : store'[k].id = store[i].id]_vars

\* C27: the commit of a save a Player relayed leaves the hidden flag and the
\* gmNotes of every stored entry as the store held them when the GM wrote
GmFieldsKept ==
    [][RelayCommitStep =>
          \A i \in 1..Len(store) : \A j \in 1..Len(store') :
             store'[j].id = store[i].id =>
                /\ store'[j].hidden = store[i].hidden
                /\ store'[j].gmNotes = store[i].gmNotes]_vars

\* C28: after a Player's save returned true, a GM's write of a relayed
\* collection eventually completes
RelayCompletion ==
    (last.op \in SaveOps /\ ~isGM(last.client) /\ last.result = "true")
        ~> (last.op = "WriteDone" /\ last.result = "relay")

\* C29: the step that completes a settings write of the entries (a GM's own
\* save or its requestSave handler) stores the collection, sends refresh to
\* every other connected client and re-renders the writer's window from the
\* stored collection; no refresh is sent in any other step
RefreshFollowsCommit ==
    /\ [][last'.op = "WriteDone" =>
             LET c == last'.client
             IN  /\ store' = Head(writing[c]).entries
                 /\ last'.emitted # <<>>
                 /\ last'.emitted[1] = Refresh
                 /\ \A u \in active \ {c} : inbox'[u] = inbox[u] \o last'.emitted
                 /\ wiki'[c].open =>
                       wiki'[c].ctx = <<_prepareContext(c, wiki'[c], store').ctx>>]_vars
    /\ [][(\E u \in Users : CountRefresh(inbox'[u]) > CountRefresh(inbox[u])) =>
             /\ last'.op = "WriteDone"
             /\ store' = Head(writing[last'.client]).entries]_vars

RefreshFollowsCommitWitness ==
    /\ last.op = "WriteDone"
    /\ last.result = "relay"
    /\ last.client = "g1"
    /\ wiki["g1"].open
    /\ wiki["g1"].ctx # <<>>
    /\ Len(wiki["g1"].ctx[1].entries) = 1
    /\ "p1" \in active
    /\ inbox["p1"] # <<>>
    /\ inbox["p1"][Len(inbox["p1"])] = Refresh

\* C30: the stored collection changes only in the step completing one
\* client's settings write and is then, whole, the collection that write was
\* started with; a collection awaiting its write is never altered
WholeCollection ==
    /\ [][store' # store =>
             /\ last'.op = "WriteDone"
             /\ store' = Head(writing[last'.client]).entries]_vars
    /\ [][\A c \in Users :
             \/ writing'[c] = writing[c]
             \/ writing'[c] = <<>>
             \/ writing[c] # <<>> /\ writing'[c] = Tail(writing[c])
             \/ /\ Len(writing'[c]) = Len(writing[c]) + 1
                /\ SubSeq(writing'[c], 1, Len(writing[c])) = writing[c]]_vars

WholeCollectionWitness ==
    /\ last.op = "WriteDone"
    /\ last.client = "g2"
    /\ Len(store) = 1
    /\ store[1].title = <<"i">>
    /\ writing["g1"] # <<>>
    /\ Len(Head(writing["g1"]).entries) = 1
    /\ Head(writing["g1"]).entries[1].title = <<"D">>

\* how many messages of this action sent by user u the sequence holds
SentBy(msgs, action, u) ==
    Cardinality({i \in 1..Len(msgs) : msgs[i].action = action /\ msgs[i].userId = u})

\* C31: an editor opened on an existing entry sets the opener's lock and
\* sends editingStart once, and further renders send nothing; an editor for a
\* new entry sets no lock and sends neither editingStart nor editingStop;
\* editingStop is sent once, by an editor that had sent its start
LockBroadcastDiscipline ==
    /\ [][\A c \in Users :
             (~editor[c].open /\ editor'[c].open /\ editor'[c].entry # <<>>) =>
                /\ last'.emitted = <<EditingStart(editor'[c].entry[1].id, c)>>
                /\ activeEditors'[c][editor'[c].entry[1].id] = c
                /\ editor'[c].broadcastedStart]_vars
    /\ [][\A c \in Users :
             SentBy(last'.emitted, "editingStart", c) > 0 =>
                /\ SentBy(last'.emitted, "editingStart", c) = 1
                /\ last'.client = c
                /\ ~editor[c].open]_vars
    /\ [][last'.op = "RerenderEditor" =>
             /\ last'.emitted = <<>>
             /\ activeEditors' = activeEditors
             /\ inbox' = inbox
             /\ editor' = editor]_vars
    /\ [][\A c \in Users :
             ((editor[c].open /\ editor[c].entry = <<>>)
                 \/ (editor'[c].open /\ editor'[c].entry = <<>>)) =>
                /\ SentBy(last'.emitted, "editingStart", c) = 0
                /\ SentBy(last'.emitted, "editingStop", c) = 0
                /\ ~editor'[c].broadcastedStart
                /\ (last'.op # "Deliver" => activeEditors'[c] = activeEditors[c])]_vars
    /\ [][\A c \in Users :
             SentBy(last'.emitted, "editingStop", c) > 0 =>
                /\ SentBy(last'.emitted, "editingStop", c) = 1
                /\ last'.client = c
                /\ editor[c].broadcastedStart
                /\ ~editor'[c].broadcastedStart]_vars
    /\ [][\A c, u \in Users : \A a \in {"editingStart", "editingStop"} :
             SentBy(inbox'[u], a, c) > SentBy(inbox[u], a, c) =>
                SentBy(last'.emitted, a, c) = 1]_vars

LockBroadcastDisciplineWitness ==
    /\ last.op = "RerenderEditor"
    /\ last.client = "p1"
    /\ editor["p1"].entry # <<>>
    /\ editor["p1"].broadcastedStart
    /\ activeEditors["p1"][1] = "p1"
    /\ SentBy(inbox["g1"], "editingStart", "p1") = 1
    /\ editor["g1"].open
    /\ editor["g1"].entry = <<>>

\* a lock message or a disconnect signal is still on its way to client u
LockNewsPending(u) ==
    \E i \in 1..Len(inbox[u]) :
        inbox[u][i].action \in {"editingStart", "editingStop", "userConnected"}

SubmitStep == last'.op \in SaveOps /\ last'.result \in {"true", "pending"}

\* the collection handed over in that step
Submitted ==
    IF isGM(last'.client)
    THEN writing'[last'.client][Len(writing'[last'.client])].entries
    ELSE last'.emitted[1].entries

\* entries of the two collections with the same id agree on pendingDelete,
\* the entry with id x apart
SamePending(before, after, x) ==
    \A i \in 1..Len(before) : \A j \in 1..Len(after) :
        (after[j].id = before[i].id /\ before[i].id # x) =>
            after[j].pendingDelete = before[i].pendingDelete

EditorSaveFrame ==
    [][(SubmitStep /\ last'.op = "HandleSave" /\ ~isGM(last'.client)
           /\ editor[last'.client].entry # <<>>) =>
          LET x == editor[last'.client].entry[1].id
          IN  /\ Len(Submitted) = Len(store)
              /\ \A i \in 1..Len(store) :
                    IF store[i].id # x
                    THEN Submitted[i] = store[i]
                    ELSE /\ DOMAIN Submitted[i] = DOMAIN store[i]
                         /\ \A f \in {"id", "createdAt", "createdBy", "hidden",
                                       "gmNotes", "comments"} :
                               Submitted[i][f] = store[i][f]]_vars

EditorSaveFrameWitness ==
    /\ last.op = "HandleSave"
    /\ last.client = "p1"
    /\ last.result = "true"
    /\ Len(last.emitted[1].entries) = 2
    /\ last.emitted[1].entries[1].title = <<"i">>
    /\ last.emitted[1].entries[1].category = Npcs
    /\ last.emitted[1].entries[1].updatedBy = "p1"
    /\ last.emitted[1].entries[1].updatedAt = DateNow
    /\ ~last.emitted[1].entries[1].pendingDelete
    /\ store = FrameWorld

\* C35: an editor save whose title is empty after trimming starts no write,
\* sends nothing, leaves the store, every queue and every lock as they were
\* and the editor open with what it held
TitleValidation ==
    [][(last'.op = "HandleSave" /\ trim(editor[last'.client].title) = <<>>) =>
          /\ last'.result = "invalid"
          /\ last'.emitted = <<>>
          /\ store' = store
          /\ writing' = writing
          /\ inbox' = inbox
          /\ nextId' = nextId
          /\ editor' = editor
          /\ editor'[last'.client].open
          /\ activeEditors' = activeEditors]_vars

TitleValidationWitness ==
    /\ last.op = "HandleSave"
    /\ last.result = "invalid"
    /\ last.client = "p1"
    /\ editor["p1"].open
    /\ editor["p1"].entry # <<>>
    /\ editor["p1"].title = <<" ">>
    /\ editor["p1"].broadcastedStart
    /\ activeEditors["p1"][1] = "p1"
    /\ store = OneEntry

\* C36: an editor save whose entry is no longer in the store submits the
\* collection read as it is, without the entry's id; and while the entry an
\* open editor holds is in neither the store, a queued message nor an awaited
\* write, no step brings its id into the store
NoResurrection ==
    /\ [][(SubmitStep /\ last'.op = "HandleSave" /\ editor[last'.client].entry # <<>>
              /\ editor[last'.client].entry[1].id \notin Ids(store)) =>
             /\ Submitted = store
             /\ editor[last'.client].entry[1].id \notin Ids(Submitted)]_vars
    /\ [][\A c \in Users :
             (editor[c].open /\ editor[c].entry # <<>>
                 /\ editor[c].entry[1].id \notin Ids(store)
                 /\ (\A u \in Users : \A i \in 1..Len(inbox[u]) :
                        editor[c].entry[1].id \notin Ids(inbox[u][i].entries))
                 /\ \A v \in Users : \A k \in 1..Len(writing[v]) :
                       editor[c].entry[1].id \notin Ids(writing[v][k].entries)) =>
                editor[c].entry[1].id \notin Ids(store')]_vars

NoResurrectionWitness ==
    /\ last.op = "HandleSave"
    /\ last.client = "p1"
    /\ last.result = "true"
    /\ Ids(store) = {2}
    /\ last.emitted[1].entries = store
    /\ ~editor["p1"].open
    /\ wiki["g1"].selected = NoId

\* C37: in the content a window renders, a reference is a link exactly when
\* the title of some stored entry equals its trimmed text ignoring case, and
\* the link then carries the id of the first such entry in the order of the
\* collection; the window's current entry keeps the stored content
CrossReferenceResolution ==
    \A c \in {"g1", "p1"} :
        (wiki[c].ctx # <<>> /\ wiki[c].ctx[1].current # <<>>) =>
            /\ \A k \in 1..Len(wiki[c].ctx[1].enrichedContent) :
                  LET node == wiki[c].ctx[1].enrichedContent[k]
                      hits == Matches(node.text)
                  IN  /\ node.tag = "missing" <=> (node.tag # "text" /\ hits = {})
                      /\ node.tag = "link" <=> (node.tag # "text" /\ hits # {})
                      /\ node.tag = "link" =>
                            \E i \in hits : /\ node.id = store[i].id
                                            /\ \A j \in hits : i <= j
                      /\ node.tag # "text" => node.text = trim(node.text)
            /\ \E i \in 1..Len(store) :
                  /\ store[i].id = wiki[c].selected
                  /\ wiki[c].ctx[1].current[1].content = store[i].content

CrossReferenceResolutionWitness ==
    /\ Len(store) = 2
    /\ store[1].title = <<"D">>
    /\ store[2].title = <<"d">>
    /\ wiki["p1"].ctx # <<>>
    /\ wiki["p1"].selected = 1
    /\ wiki["p1"].ctx[1].current # <<>>
    /\ store[1].content = <<"[", "[", "d", " ", "]", "]">>
    /\ wiki["p1"].ctx[1].enrichedContent =
          << [tag |-> "link", id |-> 1, text |-> <<"d">>] >>

\* the entries of a collection a Player may see, in their order
Visible(entries) == SelectSeq(entries, LAMBDA e : ~e.hidden)

\* C38: what a Player-role window renders from the store is what it would
\* render, in the same view state, from any store with the same entries
\* that are not hidden
HiddenNoninterference ==
    \A c \in {"p1"} :
        wiki[c].open =>
            \A other \in ProjStores :
                Visible(other) = Visible(store) =>
                    _prepareContext(c, wiki[c], other) = _prepareContext(c, wiki[c], store)

====
